---- MODULE Spec2Model ----
(***************************************************************************)
(* SatsConnect rust-engine: channel registry (lightning/channel_manager),  *)
(* topology graph (lightning/network_graph), rebalancer                    *)
(* (lightning/channel_rebalancer), asynchronous payment processor          *)
(* (performance/payment_processor) and peer failover (engine).             *)
(*                                                                         *)
(* Each subsystem owns its variables and has its own next-state relation   *)
(* and specification; all specifications start from the state right after  *)
(* construction of every component.                                        *)
(***************************************************************************)
EXTENDS Integers, Sequences, FiniteSets, TLC

VARIABLES
    channels,        \* ChannelManager.channels : channel id -> ChannelInfo
    reg_ret,         \* result of the latest ChannelManager call
    graph_channels,  \* NetworkGraph.channels : channel id -> NetworkChannelInfo
    graph_nodes,     \* the keys of NetworkGraph.nodes
    graph_now,       \* SystemTime::now() as seconds, as the graph's callers see it
    graph_ret,       \* result of the latest NetworkGraph call
    rb_channels,     \* ChannelRebalancer.channels : channel id -> ChannelInfo
    rb_ops,          \* the RebalanceOperation values the callers hold
    rb_ret,          \* result of the latest ChannelRebalancer call
    payments,        \* PaymentProcessor.payments : payment id -> Payment
    retry_queue,     \* PaymentProcessor.retry_queue : Vec<RetryItem>
    runs,            \* the process_payment_async calls: runner -> position
    drainers,        \* the started retry processors: id -> interval and to_retry
    now,             \* Utc::now() / the tokio clock, in seconds
    attempts,        \* payment id -> number of send_payment calls made for it
    pay_ret,         \* result of the latest PaymentProcessor call
    peers,           \* LightningEngine.peers : node id -> PeerNode
    primary_peer,    \* LightningEngine.primary_peer : Option<String>
    fo_ret,          \* result of the latest peer-management or failover call
    engine_node,     \* AsyncLightningEngine.node is Some
    connection_pool, \* AsyncLightningEngine.connection_pool : number of handles
    cache,           \* AsyncLightningEngine.cache : key -> CachedData
    eng_calls,       \* the AsyncLightningEngine calls in progress: caller -> position
    eng_locks,       \* lock -> the caller holding its write guard, or NoHolder
    eng_now,         \* chrono::Utc::now().timestamp(), in seconds
    eng_ret,         \* result of the latest AsyncLightningEngine call
    trk_payments,    \* lightning::PaymentProcessor.payments : hash -> PaymentInfo
    trk_processing,  \* the process_payment calls asleep between their two updates
    trk_now,         \* SystemTime::now(), in seconds
    trk_ret,         \* result of the latest lightning::PaymentProcessor call
    reg_calls,       \* the create_channel calls between their count check and insert
    rbl_calls,       \* the ChannelRebalancer calls in progress: caller -> position
    rbl_queue,       \* callers waiting for ChannelRebalancer.channels, first come first
    rbl_guards       \* caller -> the guards of ChannelRebalancer.channels it holds

reg_vars == <<channels, reg_ret>>

graph_vars == <<graph_channels, graph_nodes, graph_now, graph_ret>>

rb_vars == <<rb_channels, rb_ops, rb_ret>>

pay_vars == <<payments, retry_queue, runs, drainers, now, attempts, pay_ret>>

fo_vars == <<peers, primary_peer, fo_ret>>

eng_vars == <<engine_node, connection_pool, cache, eng_calls, eng_locks, eng_now, eng_ret>>

trk_vars == <<trk_payments, trk_processing, trk_now, trk_ret>>

regc_vars == <<reg_calls>>

rbl_vars == <<rbl_calls, rbl_queue, rbl_guards>>

vars == <<channels, reg_ret, graph_channels, graph_nodes, graph_now, graph_ret, rb_channels, rb_ops, rb_ret,
          payments, retry_queue, runs, drainers, now, attempts, pay_ret,
          peers, primary_peer, fo_ret,
          engine_node, connection_pool, cache, eng_calls, eng_locks, eng_now, eng_ret,
          trk_payments, trk_processing, trk_now, trk_ret, reg_calls,
          rbl_calls, rbl_queue, rbl_guards>>

None == [tag |-> "None"]

Some(v) == [tag |-> "Some", val |-> v]

Ok(op, v) == [op |-> op, ok |-> TRUE, val |-> v]

Err(op, e) == [op |-> op, ok |-> FALSE, err |-> e]

\* No call made yet.
NoCall == [op |-> "none", ok |-> TRUE]

(***************************************************************************)
(* Channel registry: lightning/channel_manager.rs                          *)
(***************************************************************************)

\* ChannelConfig::default()
min_channel_size == 100000

max_channel_size == 10000000

max_channels_per_peer == 5

\* enum ChannelState
ChannelStates == {"Pending", "Open", "Closing", "Closed", "Error"}

\* Channel ids stand for the strings "ch_<uuid>": 1..MaxChannels are the ids
\* create_channel can generate, UnknownChannelId is an id it never generates.
MaxChannels == 6

ChannelIds == 1..MaxChannels

UnknownChannelId == 0

\* Inputs the callers pass.
PeerIds == {"peer1", "peer2"}

Capacities == {min_channel_size - 1, min_channel_size, max_channel_size, max_channel_size + 1}

CreateInputs == {<<"peer1", min_channel_size - 1>>, <<"peer1", min_channel_size>>,
                 <<"peer1", max_channel_size>>, <<"peer1", max_channel_size + 1>>,
                 <<"peer2", min_channel_size>>, <<"peer2", max_channel_size + 1>>}

Balances == {0, min_channel_size}

TargetIds == {UnknownChannelId, 1}

\* channels.values().filter(|ch| ch.peer_id == peer_id).count()
PeerChannelCount(chs, peer_id) ==
    Cardinality({id \in DOMAIN chs : chs[id].peer_id = peer_id})

BelowMinimum_Inclusive(capacity_sats) == capacity_sats <= min_channel_size

BelowMinimum(capacity_sats) == capacity_sats < min_channel_size

ExceedsMaximum(capacity_sats) == capacity_sats > max_channel_size

PeerLimitReached_OffByOne(chs, peer_id) ==
    PeerChannelCount(chs, peer_id) > max_channels_per_peer

PeerLimitReached(chs, peer_id) ==
    PeerChannelCount(chs, peer_id) >= max_channels_per_peer

NewChannelInfo_ZeroRemote(peer_id, capacity_sats) ==
    [peer_id |-> peer_id,
     capacity_sats |-> capacity_sats,
     local_balance_sats |-> 0,
     remote_balance_sats |-> 0,
     state |-> "Pending"]

NewChannelInfo_LocalFunded(peer_id, capacity_sats) ==
    [peer_id |-> peer_id,
     capacity_sats |-> capacity_sats,
     local_balance_sats |-> capacity_sats,
     remote_balance_sats |-> 0,
     state |-> "Pending"]

\* The ChannelInfo that create_channel builds.
NewChannelInfo(peer_id, capacity_sats) ==
    [peer_id |-> peer_id,
     capacity_sats |-> capacity_sats,
     local_balance_sats |-> 0,
     remote_balance_sats |-> capacity_sats,
     state |-> "Pending"]

\* format!("ch_{}", Uuid::new_v4()): an id no registered channel has.
FreshChannelId(chs) == CHOOSE id \in ChannelIds \ DOMAIN chs :
                           \A other \in ChannelIds \ DOMAIN chs : id <= other

\* HashMap::insert
Insert(map, key, value) ==
    [k \in DOMAIN map \cup {key} |-> IF k = key THEN value ELSE map[k]]

\* create_channel(peer_id, capacity_sats), calls not overlapping.
CreateChannel(peer_id, capacity_sats) ==
    /\ Cardinality(DOMAIN channels) < MaxChannels
    /\ IF BelowMinimum(capacity_sats)
       THEN /\ reg_ret' = Err("create_channel", "BelowMinimum")
            /\ UNCHANGED channels
       ELSE IF ExceedsMaximum(capacity_sats)
       THEN /\ reg_ret' = Err("create_channel", "ExceedsMaximum")
            /\ UNCHANGED channels
       ELSE IF PeerLimitReached(channels, peer_id)
       THEN /\ reg_ret' = Err("create_channel", "PeerLimit")
            /\ UNCHANGED channels
       ELSE LET channel_id == FreshChannelId(channels) IN
            /\ channels' = Insert(channels, channel_id,
                                  NewChannelInfo(peer_id, capacity_sats))
            /\ reg_ret' = Ok("create_channel", channel_id)

\* get_channel(channel_id)
GetChannel(chs, channel_id) ==
    IF channel_id \in DOMAIN chs THEN Some(chs[channel_id]) ELSE None

UpdateChannelState_CreatesMissing(channel_id, state) ==
    /\ channels' = Insert(channels, channel_id,
                          IF channel_id \in DOMAIN channels
                          THEN [channels[channel_id] EXCEPT !.state = state]
                          ELSE [NewChannelInfo("peer1", min_channel_size)
                                   EXCEPT !.state = state])
    /\ reg_ret' = Ok("update_channel_state", channel_id)

\* update_channel_state(channel_id, state)
UpdateChannelState(channel_id, state) ==
    IF channel_id \in DOMAIN channels
    THEN /\ channels' = [channels EXCEPT ![channel_id].state = state]
         /\ reg_ret' = Ok("update_channel_state", channel_id)
    ELSE /\ reg_ret' = Err("update_channel_state", "NotFound")
         /\ UNCHANGED channels

\* update_channel_balance(channel_id, local_balance_sats, remote_balance_sats)
UpdateChannelBalance(channel_id, local_balance_sats, remote_balance_sats) ==
    IF channel_id \in DOMAIN channels
    THEN /\ channels' = [channels EXCEPT
                            ![channel_id].local_balance_sats = local_balance_sats,
                            ![channel_id].remote_balance_sats = remote_balance_sats]
         /\ reg_ret' = Ok("update_channel_balance", channel_id)
    ELSE /\ reg_ret' = Err("update_channel_balance", "NotFound")
         /\ UNCHANGED channels

CloseChannel_KeepsClosed(channel_id) ==
    IF channel_id \in DOMAIN channels
    THEN /\ channels' = [channels EXCEPT ![channel_id].state =
                            IF @ = "Closed" THEN "Closed" ELSE "Closing"]
         /\ reg_ret' = Ok("close_channel", channel_id)
    ELSE /\ reg_ret' = Err("close_channel", "NotFound")
         /\ UNCHANGED channels

\* close_channel(channel_id)
CloseChannel(channel_id) ==
    IF channel_id \in DOMAIN channels
    THEN /\ channels' = [channels EXCEPT ![channel_id].state = "Closing"]
         /\ reg_ret' = Ok("close_channel", channel_id)
    ELSE /\ reg_ret' = Err("close_channel", "NotFound")
         /\ UNCHANGED channels

IsOpen_NotClosed(ch) == ch.state # "Closed"

\* .filter(|ch| ch.state == ChannelState::Open)
IsOpen(ch) == ch.state = "Open"

\* channels.values().filter(..).count() for one state.
CountInState(chs, state) == Cardinality({id \in DOMAIN chs : chs[id].state = state})

\* .map(|ch| ch.<field>).sum() over the channels ids, taken in some order.
RECURSIVE SumField(_, _, _)
SumField(chs, ids, field) ==
    IF ids = {} THEN 0
    ELSE LET id == CHOOSE one \in ids : TRUE
         IN chs[id][field] + SumField(chs, ids \ {id}, field)

\* The sum of a field over the channels the Open filter lets through.
OpenTotal(chs, field) ==
    SumField(chs, {id \in DOMAIN chs : IsOpen(chs[id])}, field)

ChannelStats_ErrorCountedClosed(chs) ==
    [total_channels |-> Cardinality(DOMAIN chs),
     open_channels |-> CountInState(chs, "Open"),
     pending_channels |-> CountInState(chs, "Pending"),
     closing_channels |-> CountInState(chs, "Closing"),
     closed_channels |-> CountInState(chs, "Closed") + CountInState(chs, "Error"),
     total_capacity |-> OpenTotal(chs, "capacity_sats"),
     total_local_balance |-> OpenTotal(chs, "local_balance_sats"),
     total_remote_balance |-> OpenTotal(chs, "remote_balance_sats")]

\* The ChannelStats that get_channel_stats builds.
ChannelStats(chs) ==
    [total_channels |-> Cardinality(DOMAIN chs),
     open_channels |-> CountInState(chs, "Open"),
     pending_channels |-> CountInState(chs, "Pending"),
     closing_channels |-> CountInState(chs, "Closing"),
     closed_channels |-> CountInState(chs, "Closed"),
     total_capacity |-> OpenTotal(chs, "capacity_sats"),
     total_local_balance |-> OpenTotal(chs, "local_balance_sats"),
     total_remote_balance |-> OpenTotal(chs, "remote_balance_sats")]

\* get_total_capacity()
GetTotalCapacity ==
    /\ reg_ret' = Ok("get_total_capacity", OpenTotal(channels, "capacity_sats"))
    /\ UNCHANGED channels

\* get_total_local_balance()
GetTotalLocalBalance ==
    /\ reg_ret' = Ok("get_total_local_balance", OpenTotal(channels, "local_balance_sats"))
    /\ UNCHANGED channels

\* get_total_remote_balance()
GetTotalRemoteBalance ==
    /\ reg_ret' = Ok("get_total_remote_balance", OpenTotal(channels, "remote_balance_sats"))
    /\ UNCHANGED channels

\* get_channel_stats()
GetChannelStats ==
    /\ reg_ret' = [op |-> "get_channel_stats", ok |-> TRUE, stats |-> ChannelStats(channels)]
    /\ UNCHANGED channels

InitRegistry ==
    /\ channels = <<>>
    /\ reg_ret = NoCall

NextRegistry ==
    /\ \/ \E input \in CreateInputs : CreateChannel(input[1], input[2])
       \/ \E channel_id \in TargetIds, state \in ChannelStates :
             UpdateChannelState(channel_id, state)
       \/ \E channel_id \in TargetIds, l \in Balances, r \in Balances :
             UpdateChannelBalance(channel_id, l, r)
       \/ \E channel_id \in TargetIds : CloseChannel(channel_id)
    /\ UNCHANGED <<graph_vars, rb_vars, pay_vars, fo_vars, eng_vars, trk_vars, regc_vars, rbl_vars>>

\* The registry with its aggregate reads: a few channels, created with the
\* two capacities in turn, each of which is taken through the states and
\* funded.
MaxStatsChannels == 3

StatsCreateInputs ==
    IF Cardinality(DOMAIN channels) % 2 = 0
    THEN {<<"peer1", min_channel_size>>}
    ELSE {<<"peer2", max_channel_size>>}

NextRegistryStats ==
    /\ \/ \E input \in StatsCreateInputs :
             /\ Cardinality(DOMAIN channels) < MaxStatsChannels
             /\ CreateChannel(input[1], input[2])
       \/ \E channel_id \in DOMAIN channels \cup {UnknownChannelId}, state \in ChannelStates :
             UpdateChannelState(channel_id, state)
       \/ \E channel_id \in DOMAIN channels :
             UpdateChannelBalance(channel_id, min_channel_size, 0)
       \/ GetTotalCapacity
       \/ GetTotalLocalBalance
       \/ GetTotalRemoteBalance
       \/ GetChannelStats
    /\ UNCHANGED <<graph_vars, rb_vars, pay_vars, fo_vars, eng_vars, trk_vars, regc_vars, rbl_vars>>

\* create_channel calls that overlap.  A call validates the size and counts
\* the peer's channels under the read guard, drops the guard, and inserts
\* under the write guard in a later step.
RegistryCallers == {"task1", "task2"}

ConcurrentCreateInputs ==
    {<<"peer1", min_channel_size>>, <<"peer2", min_channel_size>>,
     <<"peer1", min_channel_size - 1>>}

\* create_channel up to drop(channels): the size checks and the count check.
CreateChannelCheck(caller, peer_id, capacity_sats) ==
    /\ caller \notin DOMAIN reg_calls
    /\ IF BelowMinimum(capacity_sats)
       THEN /\ reg_ret' = Err("create_channel", "BelowMinimum")
            /\ UNCHANGED reg_calls
       ELSE IF ExceedsMaximum(capacity_sats)
       THEN /\ reg_ret' = Err("create_channel", "ExceedsMaximum")
            /\ UNCHANGED reg_calls
       ELSE IF PeerLimitReached(channels, peer_id)
       THEN /\ reg_ret' = Err("create_channel", "PeerLimit")
            /\ UNCHANGED reg_calls
       ELSE /\ reg_calls' = Insert(reg_calls, caller,
                                   NewChannelInfo(peer_id, capacity_sats))
            /\ UNCHANGED reg_ret
    /\ UNCHANGED channels

\* create_channel from self.channels.write(): the insert of the ChannelInfo
\* built after the check.
CreateChannelInsert(caller) ==
    /\ caller \in DOMAIN reg_calls
    /\ Cardinality(DOMAIN channels) < MaxChannels
    /\ LET channel_id == FreshChannelId(channels) IN
          /\ channels' = Insert(channels, channel_id, reg_calls[caller])
          /\ reg_ret' = Ok("create_channel", channel_id)
    /\ reg_calls' = [c \in DOMAIN reg_calls \ {caller} |-> reg_calls[c]]

NextRegistryConcurrent ==
    /\ \/ \E caller \in RegistryCallers, input \in ConcurrentCreateInputs :
             CreateChannelCheck(caller, input[1], input[2])
       \/ \E caller \in RegistryCallers : CreateChannelInsert(caller)
    /\ UNCHANGED <<graph_vars, rb_vars, pay_vars, fo_vars, eng_vars, trk_vars, rbl_vars>>

(***************************************************************************)
(* Topology graph: lightning/network_graph.rs                              *)
(***************************************************************************)

\* Node ids and channel ids the callers use.  find_shortest_path never
\* consults NetworkGraph.nodes, so only the channel map is state here.
NodeIds == {"A", "B", "C"}

MaxGraphChannels == 3

GraphChannelIds == 1..MaxGraphChannels

\* The <<node1, node2>> pairs given to add_channel: a triangle whose channels
\* point out of A, into B and both ways at C, so that the search crosses
\* channels from node1 to node2 and from node2 to node1.
GraphLinks == {<<"A", "B">>, <<"C", "B">>, <<"A", "C">>}

\* HashMap values() yields the entries in an order the program does not
\* control: every enumeration of the set is a possible iteration order.
Orders(S) ==
    {order \in [1..Cardinality(S) -> S] :
        \A i, j \in 1..Cardinality(S) : i # j => order[i] # order[j]}

\* get_node_channels(node_id)
GetNodeChannels(chs, node_id) ==
    {id \in DOMAIN chs : chs[id].node1 = node_id \/ chs[id].node2 = node_id}

\* get_enabled_channels()
GetEnabledChannels(chs) == {id \in DOMAIN chs : chs[id].is_enabled}

\* The neighbour test of find_shortest_path, without the is_enabled check.
MayVisit_IgnoresEnabled(channel, next_node, visited) == next_node \notin visited

\* !visited.contains(next_node) && channel.is_enabled
MayVisit(channel, next_node, visited) ==
    next_node \notin visited /\ channel.is_enabled

\* The for loop over get_node_channels(&current), in iteration order `order`;
\* st = [queue, visited, parent].
RECURSIVE VisitChannels(_, _, _, _)
VisitChannels(chs, order, current, st) ==
    IF order = <<>> THEN st
    ELSE LET channel == chs[Head(order)]
             next_node == IF channel.node1 = current
                          THEN channel.node2 ELSE channel.node1
             st2 == IF MayVisit(channel, next_node, st.visited)
                    THEN [queue |-> Append(st.queue, next_node),
                          visited |-> st.visited \cup {next_node},
                          parent |-> Insert(st.parent, next_node, current)]
                    ELSE st
         IN VisitChannels(chs, Tail(order), current, st2)

\* while let Some(p) = parent.get(&node) { path.push(node); node = p }
RECURSIVE WalkParents(_, _, _)
WalkParents(parent, node, path) ==
    IF node \in DOMAIN parent
    THEN WalkParents(parent, parent[node], Append(path, node))
    ELSE path

\* Vec::reverse
Reverse(seq) == [i \in 1..Len(seq) |-> seq[Len(seq) + 1 - i]]

\* The path rebuilt when `to` is dequeued.
ReconstructPath(parent, from, to) ==
    Reverse(Append(WalkParents(parent, to, <<>>), from))

\* while let Some(current) = queue.pop_front(): the set of results over all
\* iteration orders of the channel map.
RECURSIVE BfsLoop(_, _, _, _)
BfsLoop(chs, from, to, st) ==
    IF st.queue = <<>> THEN {None}
    ELSE LET current == Head(st.queue)
             popped == [st EXCEPT !.queue = Tail(st.queue)]
         IN IF current = to
            THEN {Some(ReconstructPath(st.parent, from, to))}
            ELSE UNION {BfsLoop(chs, from, to, after) :
                        after \in {VisitChannels(chs, order, current, popped) :
                                   order \in Orders(GetNodeChannels(chs, current))}}

FindShortestPathResults_KnownNodesOnly(chs, from, to) ==
    IF from \notin graph_nodes \/ to \notin graph_nodes THEN {None}
    ELSE IF from = to THEN {Some(<<from>>)}
    ELSE BfsLoop(chs, from, to,
                 [queue |-> <<from>>, visited |-> {from}, parent |-> <<>>])

\* find_shortest_path(from, to): every result the call can return.
FindShortestPathResults(chs, from, to) ==
    IF from = to THEN {Some(<<from>>)}
    ELSE BfsLoop(chs, from, to,
                 [queue |-> <<from>>, visited |-> {from}, parent |-> <<>>])

\* The capacity and fees of the channels the callers add.
AddedCapacity == 1000000

AddedBaseFee == 1000

AddedFeeRate == 100

\* The clock values the graph's callers see.
GraphTimes == {0, 60}

\* A ChannelUpdate with no field supplied.
NoUpdate == [is_enabled |-> None, base_fee_msat |-> None, fee_rate_ppm |-> None]

\* add_node(node_info)
AddNode(node_id) ==
    /\ graph_nodes' = graph_nodes \cup {node_id}
    /\ graph_ret' = [op |-> "add_node", ok |-> TRUE, node_id |-> node_id]
    /\ UNCHANGED <<graph_channels, graph_now>>

\* add_channel(channel_info)
AddChannel(channel_id, node1, node2, is_enabled) ==
    /\ graph_channels' = Insert(graph_channels, channel_id,
                                [node1 |-> node1, node2 |-> node2,
                                 capacity_sat |-> AddedCapacity,
                                 is_enabled |-> is_enabled,
                                 last_update |-> graph_now,
                                 base_fee_msat |-> AddedBaseFee,
                                 fee_rate_ppm |-> AddedFeeRate])
    /\ graph_ret' = Ok("add_channel", channel_id)
    /\ UNCHANGED <<graph_nodes, graph_now>>

\* if let Some(v) = updates.<field> { channel.<field> = v }
Supplied(update, old) == IF update.tag = "Some" THEN update.val ELSE old

Updated_FeesReset(channel, updates, t) ==
    [channel EXCEPT !.is_enabled = Supplied(updates.is_enabled, @),
                    !.base_fee_msat = Supplied(updates.base_fee_msat, 0),
                    !.fee_rate_ppm = Supplied(updates.fee_rate_ppm, 0),
                    !.last_update = t]

\* The channel after update_channel has applied updates at time t.
Updated(channel, updates, t) ==
    [channel EXCEPT !.is_enabled = Supplied(updates.is_enabled, @),
                    !.base_fee_msat = Supplied(updates.base_fee_msat, @),
                    !.fee_rate_ppm = Supplied(updates.fee_rate_ppm, @),
                    !.last_update = t]

\* update_channel(channel_id, updates)
GraphUpdateChannel(channel_id, updates) ==
    /\ IF channel_id \in DOMAIN graph_channels
       THEN /\ graph_channels' =
                   [graph_channels EXCEPT ![channel_id] = Updated(@, updates, graph_now)]
            /\ graph_ret' = Ok("update_channel", channel_id)
       ELSE /\ graph_ret' = Err("update_channel", "Channel not found")
            /\ UNCHANGED graph_channels
    /\ UNCHANGED <<graph_nodes, graph_now>>

\* find_shortest_path(from, to)
FindShortestPath(from, to) ==
    /\ \E result \in FindShortestPathResults(graph_channels, from, to) :
          graph_ret' = [op |-> "find_shortest_path", ok |-> TRUE,
                        from |-> from, to |-> to, result |-> result]
    /\ UNCHANGED <<graph_channels, graph_nodes, graph_now>>

\* Time passes between two calls.
GraphTick ==
    /\ \E later \in GraphTimes : later > graph_now /\ graph_now' = later
    /\ UNCHANGED <<graph_channels, graph_nodes, graph_ret>>

InitGraph ==
    /\ graph_channels = <<>>
    /\ graph_nodes = {}
    /\ graph_now = 0
    /\ graph_ret = NoCall

NextGraph ==
    /\ \/ \E channel_id \in GraphChannelIds, link \in GraphLinks, is_enabled \in BOOLEAN :
             AddChannel(channel_id, link[1], link[2], is_enabled)
       \/ \E channel_id \in GraphChannelIds \cup {UnknownChannelId},
             is_enabled \in {None, Some(TRUE), Some(FALSE)} :
             GraphUpdateChannel(channel_id, [NoUpdate EXCEPT !.is_enabled = is_enabled])
       \/ \E from \in NodeIds, to \in NodeIds : FindShortestPath(from, to)
    /\ UNCHANGED <<reg_vars, rb_vars, pay_vars, fo_vars, eng_vars, trk_vars, regc_vars, rbl_vars>>

\* The graph with its node map, its clock and all fields of a ChannelUpdate:
\* the channels A-B and B-C are added enabled, changed by update_channel and
\* searched from and to the nodes and an id that is in no channel.
MaxUpdatedChannels == 2

UpdatedLink(channel_id) == IF channel_id % 2 = 1 THEN <<"A", "B">> ELSE <<"B", "C">>

IsolatedNodeId == "D"

AddedNodeIds == {"A"}

\* The ChannelUpdate values passed: nothing, each field alone, all fields.
ChannelUpdates ==
    {NoUpdate,
     [NoUpdate EXCEPT !.is_enabled = Some(FALSE)],
     [NoUpdate EXCEPT !.is_enabled = Some(TRUE)],
     [NoUpdate EXCEPT !.base_fee_msat = Some(0)],
     [NoUpdate EXCEPT !.fee_rate_ppm = Some(1)],
     [is_enabled |-> Some(FALSE), base_fee_msat |-> Some(0), fee_rate_ppm |-> Some(1)]}

SearchedPairs == {<<"A", "C">>, <<"A", "A">>, <<IsolatedNodeId, IsolatedNodeId>>}

NextGraphUpdates ==
    /\ \/ \E node_id \in AddedNodeIds : AddNode(node_id)
       \/ \E channel_id \in 1..MaxUpdatedChannels :
             AddChannel(channel_id, UpdatedLink(channel_id)[1],
                        UpdatedLink(channel_id)[2], TRUE)
       \/ \E channel_id \in (1..MaxUpdatedChannels) \cup {UnknownChannelId},
             updates \in ChannelUpdates :
             GraphUpdateChannel(channel_id, updates)
       \/ \E pair \in SearchedPairs : FindShortestPath(pair[1], pair[2])
       \/ GraphTick
    /\ UNCHANGED <<reg_vars, rb_vars, pay_vars, fo_vars, eng_vars, trk_vars, regc_vars, rbl_vars>>

(***************************************************************************)
(* Rebalancer: lightning/channel_rebalancer.rs                             *)
(***************************************************************************)

\* Channel ids the callers track, and one they never track.
RbChannelIds == {"c1", "c2"}

UntrackedChannelId == "cx"

\* Operation ids stand for the strings "rebalance_<uuid>".
MaxOperations == 1

\* (local_balance, remote_balance, capacity, is_active) values passed to
\* update_channel: full, balanced, empty, exactly at the threshold, too small
\* to rebalance, and full and empty but inactive.
RbBalanceInputs == {<<1000000, 0, 1000000, TRUE>>, <<500000, 500000, 1000000, TRUE>>,
                    <<0, 1000000, 1000000, TRUE>>, <<550000, 450000, 1000000, TRUE>>,
                    <<20000, 0, 20000, TRUE>>,
                    <<1000000, 0, 1000000, FALSE>>, <<0, 1000000, 1000000, FALSE>>}

\* The (from_channel, to_channel, amount) triples of the operations the
\* callers execute: between two tracked channels, with an amount above the
\* source's balance, on one channel as source and target, and with an
\* untracked source or target.
RbOperationInputs == {<<"c2", "c1", 400000>>, <<"c1", "c2", 1200000>>,
                      <<"c1", "c1", 400000>>,
                      <<UntrackedChannelId, "c1", 400000>>,
                      <<"c2", UntrackedChannelId, 400000>>}

\* Executions stop being started once a channel has been the source of this
\* many rebalances or would hold more than this many sats.
MaxRebalanceCount == 2

MaxLocalBalance == 2000000

\* u64::saturating_sub
SaturatingSub(a, b) == IF a > b THEN a - b ELSE 0

\* update_channel(channel_info)
RbUpdateChannel(channel_id, balances, is_active) ==
    /\ rb_channels' = Insert(rb_channels, channel_id,
                             [local_balance |-> balances[1],
                              remote_balance |-> balances[2],
                              capacity |-> balances[3],
                              is_active |-> is_active,
                              last_rebalance |-> None,
                              rebalance_count |-> 0])
    /\ rb_ret' = [op |-> "update_channel", ok |-> TRUE]
    /\ UNCHANGED rb_ops

\* A caller obtains a Pending RebalanceOperation with completed_at unset.
NewOperation(from_channel, to_channel, amount) ==
    /\ Cardinality(DOMAIN rb_ops) < MaxOperations
    /\ rb_ops' = Insert(rb_ops, Cardinality(DOMAIN rb_ops) + 1,
                        [from_channel |-> from_channel,
                         to_channel |-> to_channel,
                         amount |-> amount,
                         status |-> "Pending",
                         completed_at |-> None])
    /\ UNCHANGED <<rb_channels, rb_ret>>

\* The source-channel branch of update_channel_after_rebalance.
UpdateSource(chs, operation) ==
    IF operation.from_channel \in DOMAIN chs
    THEN [chs EXCEPT ![operation.from_channel] =
             [@ EXCEPT !.local_balance = SaturatingSub(@, operation.amount),
                       !.last_rebalance = Some("now"),
                       !.rebalance_count = @ + 1]]
    ELSE chs

\* The target-channel branch of update_channel_after_rebalance, counting the
\* rebalance on the target as well.
UpdateTarget_CountsRebalance(chs, operation) ==
    IF operation.to_channel \in DOMAIN chs
    THEN [chs EXCEPT ![operation.to_channel] =
             [@ EXCEPT !.local_balance = @ + operation.amount,
                       !.last_rebalance = Some("now"),
                       !.rebalance_count = @ + 1]]
    ELSE chs

\* The target-channel branch of update_channel_after_rebalance.
UpdateTarget(chs, operation) ==
    IF operation.to_channel \in DOMAIN chs
    THEN [chs EXCEPT ![operation.to_channel] =
             [@ EXCEPT !.local_balance = @ + operation.amount,
                       !.last_rebalance = Some("now")]]
    ELSE chs

\* update_channel_after_rebalance(operation): both branches under one write lock.
UpdateChannelAfterRebalance(chs, operation) ==
    UpdateTarget(UpdateSource(chs, operation), operation)

\* execute_rebalance up to its sleep: the status becomes InProgress.  The
\* operation is borrowed mutably, so one operation is in one call at a time.
ExecuteRebalanceBegin(operation_id) ==
    /\ operation_id \in DOMAIN rb_ops
    /\ rb_ops[operation_id].status # "InProgress"
    /\ LET operation == rb_ops[operation_id] IN
       /\ operation.from_channel \in DOMAIN rb_channels =>
             rb_channels[operation.from_channel].rebalance_count < MaxRebalanceCount
       /\ operation.to_channel \in DOMAIN rb_channels =>
             rb_channels[operation.to_channel].local_balance + operation.amount
                <= MaxLocalBalance
    /\ rb_ops' = [rb_ops EXCEPT ![operation_id].status = "InProgress"]
    /\ UNCHANGED <<rb_channels, rb_ret>>

\* execute_rebalance after its sleep: Completed, completed_at set, then the
\* channel update.
ExecuteRebalanceFinish(operation_id) ==
    /\ operation_id \in DOMAIN rb_ops
    /\ rb_ops[operation_id].status = "InProgress"
    /\ rb_ops' = [rb_ops EXCEPT ![operation_id].status = "Completed",
                                ![operation_id].completed_at = Some("now")]
    /\ rb_channels' = UpdateChannelAfterRebalance(rb_channels, rb_ops[operation_id])
    /\ rb_ret' = [op |-> "execute_rebalance", ok |-> TRUE]

\* rebalance_threshold: 0.1, as the fraction <<numerator, denominator>>
rebalance_threshold == <<1, 10>>

min_rebalance_amount == 10000

max_rebalance_amount == 1000000

\* channel.capacity / 2
IdealBalance(ch) == ch.capacity \div 2

\* |actual_balance - ideal_balance| as the code's if/else computes it
Difference(ch) ==
    IF ch.local_balance > IdealBalance(ch)
    THEN ch.local_balance - IdealBalance(ch)
    ELSE IdealBalance(ch) - ch.local_balance

\* calculate_balance_ratio, kept exactly as <<difference, ideal_balance>>;
\* a zero denominator stands for the f64 quotient by 0.0 (inf, or NaN for 0/0).
BalanceRatio(ch) ==
    IF ch.capacity = 0 THEN <<0, 1>> ELSE <<Difference(ch), IdealBalance(ch)>>

\* a/b < c/d for naturals with b, d > 0, by comparing integer parts and then
\* the reciprocals of the fractional parts.
RECURSIVE FracLess(_, _, _, _)
FracLess(a, b, c, d) ==
    IF a \div b # c \div d THEN a \div b < c \div d
    ELSE IF c % d = 0 THEN FALSE
    ELSE IF a % b = 0 THEN TRUE
    ELSE FracLess(d, c % d, b, a % b)

\* x < y on f64 quotients; nothing is less than NaN and NaN is less than nothing.
RatioLess(x, y) ==
    IF x[2] = 0 THEN FALSE
    ELSE IF y[2] = 0 THEN y[1] > 0
    ELSE FracLess(x[1], x[2], y[1], y[2])

\* balance_ratio > self.rebalance_threshold, with >= in place of >
Imbalanced_Inclusive(ch) == ~RatioLess(BalanceRatio(ch), rebalance_threshold)

\* balance_ratio > self.rebalance_threshold
Imbalanced(ch) == RatioLess(rebalance_threshold, BalanceRatio(ch))

\* The first loop of check_rebalancing_needed over the map in iteration
\* order `order`: the ids pushed to imbalanced_channels.
ImbalancedChannels(chs, order) ==
    SelectSeq(order, LAMBDA id : chs[id].is_active /\ Imbalanced(chs[id]))

\* One element put into a list already sorted by descending ratio, behind
\* the elements that do not compare less than it (the sort is stable).
RECURSIVE InsertBySeverity(_, _, _)
InsertBySeverity(chs, sorted, id) ==
    IF sorted = <<>> THEN <<id>>
    ELSE IF RatioLess(BalanceRatio(chs[Head(sorted)]), BalanceRatio(chs[id]))
    THEN <<id>> \o sorted
    ELSE <<Head(sorted)>> \o InsertBySeverity(chs, Tail(sorted), id)

\* imbalanced_channels.sort_by(|a, b| b.2.partial_cmp(&a.2).unwrap())
RECURSIVE SortBySeverity(_, _, _)
SortBySeverity(chs, list, sorted) ==
    IF list = <<>> THEN sorted
    ELSE SortBySeverity(chs, Tail(list), InsertBySeverity(chs, sorted, Head(list)))

\* calculate_rebalance_amount: (x as f64 * 0.8) as u64
CalculateRebalanceAmount(ch) == (Difference(ch) * 4) \div 5

\* find_target_channel over the map in iteration order `order`
RECURSIVE FindTargetChannel(_, _, _, _)
FindTargetChannel(chs, order, source_id, amount) ==
    IF order = <<>> THEN None
    ELSE LET id == Head(order)
             channel == chs[id]
         IN IF /\ id # source_id
               /\ channel.is_active
               /\ channel.local_balance < IdealBalance(channel)
               /\ IdealBalance(channel) - channel.local_balance >= amount
            THEN Some(id)
            ELSE FindTargetChannel(chs, Tail(order), source_id, amount)

\* create_rebalance_operation(channel, ratio)
CreateRebalanceOperation(chs, order, source_id) ==
    LET rebalance_amount == CalculateRebalanceAmount(chs[source_id])
        target_channel == FindTargetChannel(chs, order, source_id, rebalance_amount)
    IN IF rebalance_amount < min_rebalance_amount THEN None
       ELSE IF rebalance_amount > max_rebalance_amount THEN None
       ELSE IF target_channel.tag = "None" THEN None
       ELSE Some([from_channel |-> source_id,
                  to_channel |-> target_channel.val,
                  amount |-> rebalance_amount,
                  status |-> "Pending",
                  completed_at |-> None])

\* The last loop of check_rebalancing_needed: the operations pushed.
RECURSIVE CreateOperations(_, _, _)
CreateOperations(chs, order, imbalanced) ==
    IF imbalanced = <<>> THEN <<>>
    ELSE LET operation == CreateRebalanceOperation(chs, order, Head(imbalanced))
             rest == CreateOperations(chs, order, Tail(imbalanced))
         IN IF operation.tag = "Some" THEN <<operation.val>> \o rest ELSE rest

\* check_rebalancing_needed(): the map is read under one read guard, so both
\* iterations see the same order.
CheckRebalancingNeeded ==
    /\ \E order \in Orders(DOMAIN rb_channels) :
          rb_ret' = [op |-> "check_rebalancing_needed", ok |-> TRUE,
                     ops |-> CreateOperations(rb_channels, order,
                                SortBySeverity(rb_channels,
                                   ImbalancedChannels(rb_channels, order), <<>>))]
    /\ UNCHANGED <<rb_channels, rb_ops>>

InitRebalancer ==
    /\ rb_channels = <<>>
    /\ rb_ops = <<>>
    /\ rb_ret = NoCall

NextRebalancer ==
    /\ \/ \E channel_id \in RbChannelIds, balances \in RbBalanceInputs :
             RbUpdateChannel(channel_id, balances, balances[4])
       \/ \E input \in RbOperationInputs : NewOperation(input[1], input[2], input[3])
       \/ \E operation_id \in 1..MaxOperations : ExecuteRebalanceBegin(operation_id)
       \/ \E operation_id \in 1..MaxOperations : ExecuteRebalanceFinish(operation_id)
       \/ CheckRebalancingNeeded
    /\ UNCHANGED <<reg_vars, graph_vars, pay_vars, fo_vars, eng_vars, trk_vars, regc_vars, rbl_vars>>

\* A scan and the execution of what it returned: the callers track channels
\* that are full, empty or short of balance, call check_rebalancing_needed
\* and execute the operations of the returned Vec one after the other.
RbScanChannelIds == {"c1", "c2", "c3", "c4"}

RbScanInputs == {<<1000000, 0, 1000000>>, <<0, 1000000, 1000000>>,
                 <<100000, 900000, 1000000>>}

\* The caller takes the Vec<RebalanceOperation> that the scan returned.
AdoptOperations ==
    /\ rb_ret.op = "check_rebalancing_needed"
    /\ rb_ops = <<>>
    /\ rb_ret.ops # <<>>
    /\ rb_ops' = rb_ret.ops
    /\ UNCHANGED <<rb_channels, rb_ret>>

\* operation_id is next in the Vec: it has not been executed and the
\* operations before it have.
NextInOrder(operation_id) ==
    /\ rb_ops[operation_id].status = "Pending"
    /\ \A earlier \in 1..(operation_id - 1) : rb_ops[earlier].status = "Completed"

NextRebalancerScan ==
    /\ \/ \E channel_id \in RbScanChannelIds, balances \in RbScanInputs :
             /\ rb_ops = <<>>
             /\ rb_ret.op # "check_rebalancing_needed"
             /\ RbUpdateChannel(channel_id, balances, TRUE)
       \/ rb_ops = <<>> /\ CheckRebalancingNeeded
       \/ AdoptOperations
       \/ \E operation_id \in DOMAIN rb_ops :
             NextInOrder(operation_id) /\ ExecuteRebalanceBegin(operation_id)
       \/ \E operation_id \in DOMAIN rb_ops : ExecuteRebalanceFinish(operation_id)
    /\ UNCHANGED <<reg_vars, graph_vars, pay_vars, fo_vars, eng_vars, trk_vars, regc_vars, rbl_vars>>

\* The guards of ChannelRebalancer.channels.  tokio's RwLock is fair: the
\* requests are served first come first, a read request is served when no
\* write guard is held, a write request when no guard is held, and a
\* request behind a waiting one waits too.
ScanCallers == {"scan1"}

WriteCallers == {"writer1", "writer2"}

LockCallers == ScanCallers \cup WriteCallers

\* The writers: update_channel and execute_rebalance, which takes the write
\* guard in update_channel_after_rebalance.
WriteOps == {"update_channel", "execute_rebalance"}

\* The number of imbalanced channels of a scan for which
\* create_rebalance_operation gets as far as its own read().
MaxCreated == 2

NoGuards == [reads |-> 0, write |-> FALSE]

IdleCall == [pc |-> "idle", op |-> "none", left |-> 0]

\* A write guard is held by some caller.
WriteHeld == \E c \in LockCallers : rbl_guards[c].write

\* A guard of either kind is held by some caller.
AnyHeld == \E c \in LockCallers : rbl_guards[c].write \/ rbl_guards[c].reads > 0

\* The caller is waiting for a read guard.
WaitsForRead(c) == rbl_calls[c].pc \in {"wait_first", "wait_second"}

\* The request at the head of the queue can be served.
CanServe(c) == IF WaitsForRead(c) THEN ~WriteHeld ELSE ~AnyHeld

\* The position of a caller once its request is served, ignoring that a
\* request behind a waiting one waits.
Served(c) ==
    CASE rbl_calls[c].pc = "wait_first" -> "scanning"
      [] rbl_calls[c].pc = "wait_second" -> "creating"
      [] OTHER -> "writing"

\* check_rebalancing_needed: self.channels.read().await
ScanBegin(c, created) ==
    /\ rbl_calls[c].pc = "idle"
    /\ rbl_calls' = [rbl_calls EXCEPT ![c] =
                        [pc |-> "wait_first", op |-> "check_rebalancing_needed",
                         left |-> created]]
    /\ rbl_queue' = Append(rbl_queue, c)
    /\ UNCHANGED rbl_guards

\* create_rebalance_operation: self.channels.read().await, with the guard of
\* check_rebalancing_needed still held.
CreateBegin(c) ==
    /\ rbl_calls[c].pc = "scanning"
    /\ rbl_calls[c].left > 0
    /\ rbl_calls' = [rbl_calls EXCEPT ![c].pc = "wait_second"]
    /\ rbl_queue' = Append(rbl_queue, c)
    /\ UNCHANGED rbl_guards

\* create_rebalance_operation returns: its guard is dropped.
CreateEnd(c) ==
    /\ rbl_calls[c].pc = "creating"
    /\ rbl_calls' = [rbl_calls EXCEPT ![c].pc = "scanning", ![c].left = @ - 1]
    /\ rbl_guards' = [rbl_guards EXCEPT ![c].reads = @ - 1]
    /\ UNCHANGED rbl_queue

\* check_rebalancing_needed returns: its guard is dropped.
ScanEnd(c) ==
    /\ rbl_calls[c].pc = "scanning"
    /\ rbl_calls[c].left = 0
    /\ rbl_calls' = [rbl_calls EXCEPT ![c] = IdleCall]
    /\ rbl_guards' = [rbl_guards EXCEPT ![c].reads = @ - 1]
    /\ UNCHANGED rbl_queue

\* update_channel / update_channel_after_rebalance: self.channels.write().await
WriteBegin(c, op) ==
    /\ rbl_calls[c].pc = "idle"
    /\ rbl_calls' = [rbl_calls EXCEPT ![c] = [pc |-> "wait_write", op |-> op, left |-> 0]]
    /\ rbl_queue' = Append(rbl_queue, c)
    /\ UNCHANGED rbl_guards

\* The writer returns: its guard is dropped.
WriteEnd(c) ==
    /\ rbl_calls[c].pc = "writing"
    /\ rbl_calls' = [rbl_calls EXCEPT ![c] = IdleCall]
    /\ rbl_guards' = [rbl_guards EXCEPT ![c].write = FALSE]
    /\ UNCHANGED rbl_queue

\* The lock serves the request at the head of its queue.
Grant ==
    /\ rbl_queue # <<>>
    /\ LET c == Head(rbl_queue) IN
          /\ CanServe(c)
          /\ rbl_calls' = [rbl_calls EXCEPT ![c].pc = Served(c)]
          /\ rbl_guards' = IF WaitsForRead(c)
                           THEN [rbl_guards EXCEPT ![c].reads = @ + 1]
                           ELSE [rbl_guards EXCEPT ![c].write = TRUE]
    /\ rbl_queue' = Tail(rbl_queue)

InitRebalancerLocks ==
    /\ rbl_calls = [c \in LockCallers |-> IdleCall]
    /\ rbl_queue = <<>>
    /\ rbl_guards = [c \in LockCallers |-> NoGuards]

\* The steps a call takes once it has been made.
LockProgress ==
    \/ \E c \in ScanCallers : CreateBegin(c)
    \/ \E c \in ScanCallers : CreateEnd(c)
    \/ \E c \in ScanCallers : ScanEnd(c)
    \/ \E c \in WriteCallers : WriteEnd(c)
    \/ Grant

NextRebalancerLocks ==
    /\ \/ \E c \in ScanCallers, created \in 0..MaxCreated : ScanBegin(c, created)
       \/ \E c \in WriteCallers, op \in WriteOps : WriteBegin(c, op)
       \/ LockProgress
    /\ UNCHANGED <<reg_vars, graph_vars, rb_vars, pay_vars, fo_vars, eng_vars, trk_vars,
                   regc_vars>>

\* The runtime keeps polling every task that can take a step.
RebalancerLocksFairness ==
    /\ WF_rbl_vars(Grant)
    /\ \A c \in ScanCallers :
          /\ WF_rbl_vars(CreateBegin(c))
          /\ WF_rbl_vars(CreateEnd(c))
          /\ WF_rbl_vars(ScanEnd(c))
    /\ \A c \in WriteCallers : WF_rbl_vars(WriteEnd(c))

(***************************************************************************)
(* Payment processor: performance/payment_processor.rs                     *)
(***************************************************************************)

\* PaymentProcessor::new
max_retries == 3

retry_delay == 5

\* tokio::time::interval(Duration::from_secs(10)) of the retry processor
RetryInterval == 10

\* Payment ids stand for the strings "pay_<uuid prefix>".
MaxPayments == 1

PaymentIds == 1..MaxPayments

UnknownPaymentId == 0

\* The clock advances in steps of retry_delay up to MaxTime; at most
\* MaxDrainers retry processors are started and at most MaxAttempts
\* send_payment calls are made per payment.
MaxTime == 30

MaxDrainers == 2

MaxAttempts == 5

\* Outcomes of timeout(30 s, lightning_engine.send_payment(invoice)).
Outcomes == {"ok", "failed", "timeout"}

\* The error text of a failed outcome.
ErrorOf(outcome) ==
    IF outcome = "timeout" THEN "Payment processing timed out" ELSE "send_payment failed"

\* A runner that is not inside process_payment_async; result is what its last
\* process_payment_async call of the current process_retry_queue returned.
IdleRun ==
    [pc |-> "idle", payment_id |-> UnknownPaymentId, retry_count |-> 0, wake_at |-> 0,
     result |-> "none"]

DoneRun == [IdleRun EXCEPT !.pc = "done"]

\* process_payment_async(payment_id) entered: retry_count = 0, at the loop head.
StartRun(payment_id) ==
    [pc |-> "loop", payment_id |-> payment_id, retry_count |-> 0, wake_at |-> 0,
     result |-> "none"]

Task(payment_id) == <<"task", payment_id>>

Drainer(d) == <<"drainer", d>>

\* What a run becomes when process_payment_async returns result: a spawned
\* task ends; process_retry_queue logs an Err and goes on with the next item.
Returned_AbortsOnError(runner, result) ==
    IF runner[1] = "task" \/ result = "err"
    THEN [DoneRun EXCEPT !.result = result]
    ELSE [IdleRun EXCEPT !.result = result]

Returned(runner, result) ==
    IF runner[1] = "task" THEN DoneRun ELSE [IdleRun EXCEPT !.result = result]

\* update_payment_status(payment_id, status, error)
UpdatePaymentStatus(ps, payment_id, status, error) ==
    IF payment_id \in DOMAIN ps
    THEN [ps EXCEPT ![payment_id].status = status,
                    ![payment_id].error_message = error]
    ELSE ps

\* update_payment_success(payment_id, payment_hash, status)
UpdatePaymentSuccess(ps, payment_id, payment_hash) ==
    IF payment_id \in DOMAIN ps
    THEN [ps EXCEPT ![payment_id].status = "Succeeded",
                    ![payment_id].payment_hash = payment_hash,
                    ![payment_id].error_message = None]
    ELSE ps

\* update_payment_failure(payment_id, error)
UpdatePaymentFailure(ps, payment_id, error) ==
    IF payment_id \in DOMAIN ps
    THEN [ps EXCEPT ![payment_id].status = "Failed",
                    ![payment_id].error_message = Some(error)]
    ELSE ps

\* add_to_retry_queue(payment_id, retry_count, error); RetryItem.error is
\* never read by the program and is left out of the item.
AddToRetryQueue(queue, payment_id, retry_count, error) ==
    Append(queue, [payment_id |-> payment_id,
                   retry_count |-> retry_count,
                   next_retry_at |-> now + 5 * retry_count])

\* process_payment(None, ...): the Pending record is stored, the processing
\* task is spawned and the record is returned.
ProcessPayment(payment_id) ==
    /\ payment_id \notin DOMAIN payments
    /\ payments' = Insert(payments, payment_id,
                          [status |-> "Pending",
                           payment_hash |-> "",
                           retry_count |-> 0,
                           error_message |-> None])
    /\ runs' = Insert(runs, Task(payment_id), StartRun(payment_id))
    /\ attempts' = Insert(attempts, payment_id, 0)
    /\ pay_ret' = [op |-> "process_payment", ok |-> TRUE, val |-> payment_id,
                    payment |-> [status |-> "Pending",
                                 payment_hash |-> "",
                                 retry_count |-> 0,
                                 error_message |-> None]]
    /\ UNCHANGED <<retry_queue, drainers, now>>

\* process_payment_async, loop head: while retry_count <= max_retries,
\* the status is set to Processing.
LoopHead(runner) ==
    /\ runner \in DOMAIN runs
    /\ runs[runner].pc = "loop"
    /\ IF runs[runner].retry_count <= max_retries
       THEN /\ payments' = UpdatePaymentStatus(payments, runs[runner].payment_id,
                                               "Processing", None)
            /\ runs' = [runs EXCEPT ![runner].pc = "send"]
       ELSE /\ runs' = [runs EXCEPT ![runner] = Returned(runner, "ok")]
            /\ UNCHANGED payments
    /\ UNCHANGED <<retry_queue, drainers, now, attempts, pay_ret>>

\* process_payment_async, the match on the result of the send attempt.
AttemptResult(runner, outcome) ==
    /\ runner \in DOMAIN runs
    /\ runs[runner].pc = "send"
    /\ LET run == runs[runner]
           payment_id == run.payment_id
       IN /\ attempts' = [attempts EXCEPT ![payment_id] = @ + 1]
          /\ IF outcome = "ok"
             THEN /\ payments' = UpdatePaymentSuccess(payments, payment_id, "hash")
                  /\ runs' = [runs EXCEPT ![runner] = Returned(runner, "ok")]
                  /\ UNCHANGED retry_queue
             ELSE IF run.retry_count < max_retries
             THEN /\ retry_queue' = AddToRetryQueue(retry_queue, payment_id,
                                                    run.retry_count + 1, ErrorOf(outcome))
                  /\ runs' = [runs EXCEPT ![runner] =
                                 [run EXCEPT !.pc = "sleep",
                                             !.retry_count = run.retry_count + 1,
                                             !.wake_at = now + retry_delay * (run.retry_count + 1)]]
                  /\ UNCHANGED payments
             ELSE /\ payments' = UpdatePaymentFailure(payments, payment_id, ErrorOf(outcome))
                  /\ runs' = [runs EXCEPT ![runner] = Returned(runner, "err")]
                  /\ UNCHANGED retry_queue
    /\ UNCHANGED <<drainers, now, pay_ret>>

\* process_payment_async, tokio::time::sleep(retry_delay * retry_count) is over.
Wake(runner) ==
    /\ runner \in DOMAIN runs
    /\ runs[runner].pc = "sleep"
    /\ now >= runs[runner].wake_at
    /\ runs' = [runs EXCEPT ![runner].pc = "loop", ![runner].wake_at = 0]
    /\ UNCHANGED <<payments, retry_queue, drainers, now, attempts, pay_ret>>

\* cancel_payment(payment_id)
CancelPayment(payment_id) ==
    /\ IF payment_id \notin DOMAIN payments
       THEN /\ pay_ret' = Err("cancel_payment", "Payment not found")
            /\ UNCHANGED payments
       ELSE IF payments[payment_id].status = "Succeeded"
       THEN /\ pay_ret' = Err("cancel_payment", "Cannot cancel completed payment")
            /\ UNCHANGED payments
       ELSE /\ payments' = [payments EXCEPT ![payment_id].status = "Cancelled"]
            /\ pay_ret' = Ok("cancel_payment", payment_id)
    /\ UNCHANGED <<retry_queue, runs, drainers, now, attempts>>

\* initialize(): the engine is initialized and, if that succeeds, a retry
\* processor is spawned; its interval ticks at once.  The calls are made at
\* start-up, before the clock has advanced.
Initialize(engine_ok) ==
    /\ now = 0
    /\ IF engine_ok
       THEN /\ Cardinality(DOMAIN drainers) < MaxDrainers
            /\ LET d == Cardinality(DOMAIN drainers) + 1 IN
               /\ drainers' = Insert(drainers, d, [next_tick |-> now, to_retry |-> <<>>])
               /\ runs' = Insert(runs, Drainer(d), IdleRun)
            /\ pay_ret' = Ok("initialize", 0)
       ELSE /\ pay_ret' = Err("initialize", "engine")
            /\ UNCHANGED <<drainers, runs>>
    /\ UNCHANGED <<payments, retry_queue, now, attempts>>

ReadyItems_StrictlyBefore(queue, t) ==
    SelectSeq(queue, LAMBDA item : item.next_retry_at < t)

\* The items of the queue ready at time t, in queue order.
ReadyItems(queue, t) == SelectSeq(queue, LAMBDA item : item.next_retry_at <= t)

\* The items of the queue not ready at time t, in queue order.
KeptItems(queue, t) == SelectSeq(queue, LAMBDA item : ~(item.next_retry_at <= t))

\* The retry processor's interval ticks and process_retry_queue moves the
\* ready items out of the queue under the write lock.
DrainerTick(d) ==
    /\ d \in DOMAIN drainers
    /\ runs[Drainer(d)].pc = "idle"
    /\ drainers[d].to_retry = <<>>
    /\ now >= drainers[d].next_tick
    /\ drainers' = [drainers EXCEPT ![d].next_tick = @ + RetryInterval,
                                    ![d].to_retry = ReadyItems(retry_queue, now)]
    /\ retry_queue' = KeptItems(retry_queue, now)
    /\ runs' = [runs EXCEPT ![Drainer(d)].result = "none"]
    /\ UNCHANGED <<payments, now, attempts, pay_ret>>

\* process_retry_queue, for item in to_retry: process_payment_async is
\* entered for the next item.
DrainerNext(d) ==
    /\ d \in DOMAIN drainers
    /\ runs[Drainer(d)].pc = "idle"
    /\ drainers[d].to_retry # <<>>
    /\ runs' = [runs EXCEPT ![Drainer(d)] = StartRun(Head(drainers[d].to_retry).payment_id)]
    /\ drainers' = [drainers EXCEPT ![d].to_retry = Tail(@)]
    /\ UNCHANGED <<payments, retry_queue, now, attempts, pay_ret>>

\* A tokio timer has expired: a sleep of process_payment_async is over or an
\* interval of a waiting retry processor has elapsed.
TimerDue ==
    \/ \E runner \in DOMAIN runs :
          runs[runner].pc = "sleep" /\ now >= runs[runner].wake_at
    \/ \E d \in DOMAIN drainers :
          /\ runs[Drainer(d)].pc = "idle"
          /\ drainers[d].to_retry = <<>>
          /\ now >= drainers[d].next_tick

\* Time passes, by one step of retry_delay; expired timers fire within the
\* step in which they expire.
Tick ==
    /\ ~TimerDue
    /\ now' = now + retry_delay
    /\ UNCHANGED <<payments, retry_queue, runs, drainers, attempts, pay_ret>>

Runners == {Task(p) : p \in PaymentIds} \cup {Drainer(d) : d \in 1..MaxDrainers}

\* Fewer than limit send attempts were made for the payment runner is sending.
AttemptsBelow(runner, limit) ==
    /\ runner \in DOMAIN runs
    /\ runs[runner].pc = "send"
    /\ attempts[runs[runner].payment_id] < limit

InitPayments ==
    /\ payments = <<>>
    /\ retry_queue = <<>>
    /\ runs = <<>>
    /\ drainers = <<>>
    /\ now = 0
    /\ attempts = <<>>
    /\ pay_ret = NoCall

NextPayments ==
    /\ \/ \E payment_id \in PaymentIds : ProcessPayment(payment_id)
       \/ \E runner \in Runners : LoopHead(runner)
       \/ \E runner \in Runners, outcome \in Outcomes :
             AttemptsBelow(runner, MaxAttempts) /\ AttemptResult(runner, outcome)
       \/ \E runner \in Runners : Wake(runner)
       \/ \E payment_id \in PaymentIds \cup {UnknownPaymentId} : CancelPayment(payment_id)
       \/ \E engine_ok \in BOOLEAN : Initialize(engine_ok)
       \/ \E d \in 1..MaxDrainers : DrainerTick(d)
       \/ \E d \in 1..MaxDrainers : DrainerNext(d)
       \/ now < MaxTime /\ Tick
    /\ UNCHANGED <<reg_vars, graph_vars, rb_vars, fo_vars, eng_vars, trk_vars, regc_vars, rbl_vars>>

\* The retry processor followed through whole retry cycles: one processor is
\* started, no payment is cancelled, and the clock and the attempts run far
\* enough for a retried payment to use up its retries.
MaxRetryTime == 50

MaxRetryAttempts == 8

\* The payment submitted and the runners at work: its task and the one
\* retry processor.
RetriedPaymentIds == {1}

RetryRunners == {Task(p) : p \in RetriedPaymentIds} \cup {Drainer(1)}

NextRetryProcessor ==
    /\ \/ \E payment_id \in RetriedPaymentIds : ProcessPayment(payment_id)
       \/ \E runner \in RetryRunners : LoopHead(runner)
       \/ \E runner \in RetryRunners, outcome \in Outcomes :
             AttemptsBelow(runner, MaxRetryAttempts) /\ AttemptResult(runner, outcome)
       \/ \E runner \in RetryRunners : Wake(runner)
       \/ drainers = <<>> /\ Initialize(TRUE)
       \/ DrainerTick(1)
       \/ DrainerNext(1)
       \/ now < MaxRetryTime /\ Tick
    /\ UNCHANGED <<reg_vars, graph_vars, rb_vars, fo_vars, eng_vars, trk_vars, regc_vars, rbl_vars>>

(***************************************************************************)
(* Peer management and payment failover (engine.rs)                        *)
(***************************************************************************)

\* The node ids of the peers the callers add.
PeerNodeIds == {"n1", "n2", "n3"}

\* A node id that is never added.
UnknownNodeId == "nx"

\* success_rate is kept exactly, as num / 10^scale; the model stops updating
\* a peer whose rate has this many decimal digits.
MaxRateUpdates == 3

\* The model stops penalising a peer with this many connection_attempts.
MaxConnectionAttempts == 3

\* Invoices as character sequences.
Invoices == {<<"l", "n", "b", "c", "1">>, <<"l", "n", "t", "b", "1">>, <<>>}

InvoicePrefix == <<"l", "n", "b", "c">>

\* str::starts_with
StartsWith(s, prefix) ==
    Len(s) >= Len(prefix) /\ SubSeq(s, 1, Len(prefix)) = prefix

RECURSIVE Pow10(_)
Pow10(k) == IF k = 0 THEN 1 ELSE 10 * Pow10(k - 1)

\* The same rate with no trailing zero digit.
RECURSIVE Normalise(_)
Normalise(rate) ==
    IF rate.scale > 0 /\ rate.num % 10 = 0
    THEN Normalise([num |-> rate.num \div 10, scale |-> rate.scale - 1])
    ELSE rate

\* success_rate: 1.0
InitialRate == [num |-> 1, scale |-> 0]

\* peer.success_rate * 0.9
Decreased(rate) == Normalise([num |-> 9 * rate.num, scale |-> rate.scale + 1])

MovingAverage_GainDoubled(rate) ==
    Normalise([num |-> 9 * rate.num + 2 * Pow10(rate.scale), scale |-> rate.scale + 1])

\* (peer.success_rate * 0.9) + 0.1
MovingAverage(rate) ==
    Normalise([num |-> 9 * rate.num + Pow10(rate.scale), scale |-> rate.scale + 1])

\* The PeerNode built by add_peer; address and last_seen are never read by
\* the calls modelled here.
NewPeerNode ==
    [is_online |-> TRUE, connection_attempts |-> 0, success_rate |-> InitialRate]

\* The is_online branch of update_peer_status.
MarkedOnline(peer) ==
    [peer EXCEPT !.is_online = TRUE,
                 !.connection_attempts = 0,
                 !.success_rate = MovingAverage(@)]

\* The else branch of update_peer_status, without the increment of
\* connection_attempts.
MarkedOffline_KeepsAttempts(peer) ==
    [peer EXCEPT !.is_online = FALSE,
                 !.success_rate = Decreased(@)]

\* The else branch of update_peer_status.
MarkedOffline(peer) ==
    [peer EXCEPT !.is_online = FALSE,
                 !.connection_attempts = @ + 1,
                 !.success_rate = Decreased(@)]

\* update_peer_status(node_id, is_online) on the peer map ps.
WithPeerStatus(ps, node_id, is_online) ==
    IF node_id \in DOMAIN ps
    THEN [ps EXCEPT ![node_id] = IF is_online THEN MarkedOnline(@)
                                 ELSE MarkedOffline(@)]
    ELSE ps

\* format!("{:x}", Sha256(peer_id ++ invoice))
PaymentHash(peer_id, invoice) == <<"sha256", peer_id, invoice>>

\* send_payment_to_peer(peer_id, invoice) on the peer map ps.
SendPaymentToPeer(ps, peer_id, invoice) ==
    IF ~StartsWith(invoice, InvoicePrefix)
    THEN [ok |-> FALSE, err |-> "Invalid Lightning invoice format", peers |-> ps]
    ELSE [ok |-> TRUE, val |-> <<PaymentHash(peer_id, invoice), "SUCCEEDED">>,
          peers |-> WithPeerStatus(ps, peer_id, TRUE)]

\* One entry of the record of send_payment_to_peer calls made by a
\* send_payment_with_failover call.
Attempt(peer_id, phase, r) ==
    [peer |-> peer_id, phase |-> phase, ok |-> r.ok,
     error |-> IF r.ok THEN None ELSE Some(r.err)]

\* "Try primary peer first"; st = [peers, primary, last_error, result, log].
TryPrimary(invoice, st) ==
    IF st.primary.tag = "Some"
    THEN LET primary == st.primary.val
             r == SendPaymentToPeer(st.peers, primary, invoice)
         IN IF r.ok
            THEN [st EXCEPT !.peers = r.peers,
                            !.result = Some(r.val),
                            !.log = Append(@, Attempt(primary, "primary", r))]
            ELSE [st EXCEPT !.peers = WithPeerStatus(r.peers, primary, FALSE),
                            !.last_error = Some(r.err),
                            !.log = Append(@, Attempt(primary, "primary", r))]
    ELSE st

\* The `if peer.is_online` test of the loop, always true.
Eligible_Any(peer) == TRUE

\* if peer.is_online
Eligible(peer) == peer.is_online

\* "Try other peers": the for loop over the get_peers() snapshot, in
\* iteration order `order`.
RECURSIVE TryPeers(_, _, _, _)
TryPeers(order, snapshot, invoice, st) ==
    IF order = <<>> THEN st
    ELSE LET node_id == Head(order)
         IN IF Eligible(snapshot[node_id])
            THEN LET r == SendPaymentToPeer(st.peers, node_id, invoice)
                 IN IF r.ok
                    THEN [st EXCEPT !.peers = r.peers,
                                    !.primary = Some(node_id),
                                    !.result = Some(r.val),
                                    !.log = Append(@, Attempt(node_id, "other", r))]
                    ELSE TryPeers(Tail(order), snapshot, invoice,
                            [st EXCEPT !.peers = WithPeerStatus(r.peers, node_id, FALSE),
                                       !.last_error = Some(r.err),
                                       !.log = Append(@, Attempt(node_id, "other", r))])
            ELSE TryPeers(Tail(order), snapshot, invoice, st)

\* Err(last_error.unwrap_or_else(|| anyhow!("All peers failed")))
FinalError(last_error) ==
    IF last_error.tag = "Some" THEN last_error.val ELSE "All peers failed"

\* The peer can take one more update_peer_status within the model's bounds.
Updatable(peer) ==
    /\ peer.success_rate.scale < MaxRateUpdates
    /\ peer.connection_attempts < MaxConnectionAttempts

\* add_peer(node_id, address)
AddPeer(node_id) ==
    /\ peers' = Insert(peers, node_id, NewPeerNode)
    /\ fo_ret' = [op |-> "add_peer", ok |-> TRUE]
    /\ UNCHANGED primary_peer

\* remove_peer(node_id)
RemovePeer(node_id) ==
    /\ peers' = [id \in DOMAIN peers \ {node_id} |-> peers[id]]
    /\ fo_ret' = [op |-> "remove_peer", ok |-> TRUE]
    /\ UNCHANGED primary_peer

\* set_primary_peer(node_id)
SetPrimaryPeer(node_id) ==
    /\ primary_peer' = node_id
    /\ fo_ret' = [op |-> "set_primary_peer", ok |-> TRUE]
    /\ UNCHANGED peers

\* update_peer_status(node_id, is_online)
UpdatePeerStatus(node_id, is_online) ==
    /\ node_id \in DOMAIN peers => Updatable(peers[node_id])
    /\ peers' = WithPeerStatus(peers, node_id, is_online)
    /\ fo_ret' = [op |-> "update_peer_status", ok |-> TRUE]
    /\ UNCHANGED primary_peer

\* send_payment_with_failover(invoice)
SendPaymentWithFailover(invoice) ==
    /\ \A id \in DOMAIN peers : Updatable(peers[id])
    /\ LET start == [peers |-> peers, primary |-> primary_peer,
                     last_error |-> None, result |-> None, log |-> <<>>]
           first == TryPrimary(invoice, start)
       IN \E order \in Orders(DOMAIN first.peers) :
             LET final == IF first.result.tag = "Some" THEN first
                          ELSE TryPeers(order, first.peers, invoice, first)
             IN /\ peers' = final.peers
                /\ primary_peer' = final.primary
                /\ fo_ret' = IF final.result.tag = "Some"
                             THEN [op |-> "send_payment_with_failover", ok |-> TRUE,
                                   result |-> final.result.val, log |-> final.log]
                             ELSE [op |-> "send_payment_with_failover", ok |-> FALSE,
                                   err |-> FinalError(final.last_error),
                                   log |-> final.log]

\* a.success_rate.partial_cmp(&b.success_rate) == Less, on exact rates.
RateLess(a, b) == a.num * Pow10(b.scale) < b.num * Pow10(a.scale)

\* The filter of get_best_peer, keeping every peer.
OnlinePeers_All(ps) == DOMAIN ps

\* peers.iter().filter(|(_, peer)| peer.is_online)
OnlinePeers(ps) == {id \in DOMAIN ps : ps[id].is_online}

\* Iterator::max_by over `order`: a later element replaces the best so far
\* unless it compares Less.
RECURSIVE MaxBy(_, _, _)
MaxBy(ps, order, best) ==
    IF order = <<>> THEN best
    ELSE MaxBy(ps, Tail(order),
               IF RateLess(ps[Head(order)].success_rate, ps[best].success_rate)
               THEN best ELSE Head(order))

\* get_best_peer(): every result the call can return.
GetBestPeerResults(ps) ==
    IF OnlinePeers(ps) = {} THEN {None}
    ELSE {Some(MaxBy(ps, Tail(order), Head(order))) : order \in Orders(OnlinePeers(ps))}

\* get_best_peer()
GetBestPeer ==
    /\ \E best \in GetBestPeerResults(peers) :
          fo_ret' = [op |-> "get_best_peer", ok |-> TRUE, best |-> best]
    /\ UNCHANGED <<peers, primary_peer>>

InitFailover ==
    /\ peers = <<>>
    /\ primary_peer = None
    /\ fo_ret = NoCall

NextFailover ==
    /\ \/ \E node_id \in PeerNodeIds : AddPeer(node_id)
       \/ \E node_id \in PeerNodeIds \cup {UnknownNodeId} : RemovePeer(node_id)
       \/ \E node_id \in {None} \cup {Some(id) : id \in PeerNodeIds \cup {UnknownNodeId}} :
             SetPrimaryPeer(node_id)
       \/ \E node_id \in PeerNodeIds \cup {UnknownNodeId}, is_online \in BOOLEAN :
             UpdatePeerStatus(node_id, is_online)
       \/ \E invoice \in Invoices : SendPaymentWithFailover(invoice)
       \/ GetBestPeer
    /\ UNCHANGED <<reg_vars, graph_vars, rb_vars, pay_vars, eng_vars, trk_vars, regc_vars, rbl_vars>>

(***************************************************************************)
(* Async engine: performance/async_lightning_engine.rs                     *)
(***************************************************************************)

max_connections == 10

\* ttl of the "balance" cache entry, in seconds.
balance_ttl == 30

BalanceKey == "balance"

\* The tasks that call into the engine.
Callers == {"task1", "task2"}

NoHolder == "none"

\* The clock runs to MaxClock, in steps that take an entry to the ages 29, 30
\* and 31.
MaxClock == 60

ClockSteps == {29, 30}

\* initialize() is called while the pool can take all its handles.
MaxPool == 10

\* The pool can take the handles of one more initialize() within limit.
PoolBelow(limit) == connection_pool + max_connections <= limit

\* The pairs on_chain_balance / total_spendable_on_chain_balance_sats return.
RuntimeBalances == {<<0, 0>>, <<5, 7>>}

RuntimeOutcomes == {"ok", "failed", "timeout"}

NoEngineCall == [op |-> "none", pc |-> "idle", i |-> 0]

\* serde_json::to_value of a (u64, u64): a two-element JSON array.
ToValue(balance) == [kind |-> "Array", items |-> <<balance[1], balance[2]>>]

\* serde_json::from_value::<(u64, u64)>
FromValue(data) ==
    IF data.kind = "Array" /\ Len(data.items) = 2
    THEN [ok |-> TRUE, val |-> <<data.items[1], data.items[2]>>]
    ELSE [ok |-> FALSE, val |-> <<>>]

Fresh_Inclusive(cached, t) == cached.timestamp + cached.ttl >= t

\* cached.timestamp + cached.ttl > now
Fresh(cached, t) == cached.timestamp + cached.ttl > t

\* What a call leaves in eng_ret when it returns.
EngineOk(op, caller, val) ==
    [op |-> op, ok |-> TRUE, caller |-> caller, val |-> val, at |-> eng_now]

EngineErr(op, caller, e) ==
    [op |-> op, ok |-> FALSE, caller |-> caller, err |-> e, at |-> eng_now]

\* initialize(), up to the first create_node().await.
EngineInitialize(caller) ==
    /\ eng_calls[caller].pc = "idle"
    /\ eng_calls' = [eng_calls EXCEPT ![caller] =
                        [op |-> "initialize", pc |-> "create_primary", i |-> 0]]
    /\ UNCHANGED <<engine_node, connection_pool, cache, eng_locks, eng_now, eng_ret>>

\* initialize(): create_node() for the primary node returns.
CreatePrimary(caller, created) ==
    /\ eng_calls[caller].pc = "create_primary"
    /\ IF created
       THEN /\ eng_calls' = [eng_calls EXCEPT ![caller].pc = "store_node"]
            /\ UNCHANGED eng_ret
       ELSE /\ eng_calls' = [eng_calls EXCEPT ![caller] = NoEngineCall]
            /\ eng_ret' = EngineErr("initialize", caller, "create_node")
    /\ UNCHANGED <<engine_node, connection_pool, cache, eng_locks, eng_now>>

\* initialize(): the primary node is stored under the node write lock.
StoreNode(caller) ==
    /\ eng_calls[caller].pc = "store_node"
    /\ eng_locks["node"] = NoHolder
    /\ engine_node' = TRUE
    /\ eng_calls' = [eng_calls EXCEPT ![caller].pc = "lock_pool"]
    /\ UNCHANGED <<connection_pool, cache, eng_locks, eng_now, eng_ret>>

\* initialize(): the pool write lock is taken, the primary handle is pushed
\* and the first additional create_node().await is entered with the lock held.
LockPool(caller) ==
    /\ eng_calls[caller].pc = "lock_pool"
    /\ eng_locks["connection_pool"] = NoHolder
    /\ connection_pool' = connection_pool + 1
    /\ IF 1 < max_connections
       THEN /\ eng_locks' = [eng_locks EXCEPT !["connection_pool"] = caller]
            /\ eng_calls' = [eng_calls EXCEPT ![caller].pc = "create_extra",
                                              ![caller].i = 1]
            /\ UNCHANGED eng_ret
       ELSE /\ eng_calls' = [eng_calls EXCEPT ![caller] = NoEngineCall]
            /\ eng_ret' = EngineOk("initialize", caller, <<>>)
            /\ UNCHANGED eng_locks
    /\ UNCHANGED <<engine_node, cache, eng_now>>

\* initialize(): an additional create_node() returns inside
\* for _ in 1..max_connections; a failure breaks the loop.  The pool guard is
\* dropped at the end of the block.
CreateExtra(caller, created) ==
    /\ eng_calls[caller].pc = "create_extra"
    /\ connection_pool' = IF created THEN connection_pool + 1 ELSE connection_pool
    /\ IF created /\ eng_calls[caller].i + 1 < max_connections
       THEN /\ eng_calls' = [eng_calls EXCEPT ![caller].i = @ + 1]
            /\ UNCHANGED <<eng_locks, eng_ret>>
       ELSE /\ eng_locks' = [eng_locks EXCEPT !["connection_pool"] = NoHolder]
            /\ eng_calls' = [eng_calls EXCEPT ![caller] = NoEngineCall]
            /\ eng_ret' = EngineOk("initialize", caller, <<>>)
    /\ UNCHANGED <<engine_node, cache, eng_now>>

\* get_balance(): the cache is checked under its write lock.
GetBalance(caller) ==
    /\ eng_calls[caller].pc = "idle"
    /\ eng_locks["cache"] = NoHolder
    /\ IF BalanceKey \in DOMAIN cache /\ Fresh(cache[BalanceKey], eng_now)
       THEN LET balance == FromValue(cache[BalanceKey].data) IN
            /\ eng_ret' = IF balance.ok
                          THEN EngineOk("get_balance", caller, balance.val)
                          ELSE EngineErr("get_balance", caller, "from_value")
            /\ UNCHANGED eng_calls
       ELSE /\ eng_calls' = [eng_calls EXCEPT ![caller] =
                               [op |-> "get_balance", pc |-> "get_node", i |-> 0]]
            /\ UNCHANGED eng_ret
    /\ UNCHANGED <<engine_node, connection_pool, cache, eng_locks, eng_now>>

\* get_balance(): get_node() reads the pool and falls back to the primary node.
GetNode(caller) ==
    /\ eng_calls[caller].pc = "get_node"
    /\ eng_locks["connection_pool"] = NoHolder
    /\ IF connection_pool > 0 \/ engine_node
       THEN /\ eng_calls' = [eng_calls EXCEPT ![caller].pc = "runtime"]
            /\ UNCHANGED eng_ret
       ELSE /\ eng_calls' = [eng_calls EXCEPT ![caller] = NoEngineCall]
            /\ eng_ret' = EngineErr("get_balance", caller, "No Lightning nodes available")
    /\ UNCHANGED <<engine_node, connection_pool, cache, eng_locks, eng_now>>

\* get_balance(): the runtime's balance calls return within the timeout or
\* not; a fresh balance is cached under the write lock and returned.
BalanceResult(caller, outcome, balance) ==
    /\ eng_calls[caller].pc = "runtime"
    /\ eng_calls' = [eng_calls EXCEPT ![caller] = NoEngineCall]
    /\ IF outcome = "ok"
       THEN /\ eng_locks["cache"] = NoHolder
            /\ cache' = Insert(cache, BalanceKey,
                               [data |-> ToValue(balance),
                                timestamp |-> eng_now,
                                ttl |-> balance_ttl])
            /\ eng_ret' = EngineOk("get_balance", caller, balance)
       ELSE /\ eng_ret' = EngineErr("get_balance", caller,
                                    IF outcome = "timeout"
                                    THEN "Balance request timed out"
                                    ELSE "runtime")
            /\ UNCHANGED cache
    /\ UNCHANGED <<engine_node, connection_pool, eng_locks, eng_now>>

\* Time passes.
EngineTick(seconds) ==
    /\ eng_now + seconds <= MaxClock
    /\ eng_now' = eng_now + seconds
    /\ UNCHANGED <<engine_node, connection_pool, cache, eng_calls, eng_locks, eng_ret>>

InitEngine ==
    /\ engine_node = FALSE
    /\ connection_pool = 0
    /\ cache = <<>>
    /\ eng_calls = [caller \in Callers |-> NoEngineCall]
    /\ eng_locks = [lock \in {"node", "connection_pool", "cache"} |-> NoHolder]
    /\ eng_now = 0
    /\ eng_ret = NoCall

NextEngine ==
    /\ \/ \E caller \in Callers : PoolBelow(MaxPool) /\ EngineInitialize(caller)
       \/ \E caller \in Callers, created \in BOOLEAN : CreatePrimary(caller, created)
       \/ \E caller \in Callers : StoreNode(caller)
       \/ \E caller \in Callers : LockPool(caller)
       \/ \E caller \in Callers, created \in BOOLEAN : CreateExtra(caller, created)
       \/ \E caller \in Callers : GetBalance(caller)
       \/ \E caller \in Callers : GetNode(caller)
       \/ \E caller \in Callers, outcome \in RuntimeOutcomes, balance \in RuntimeBalances :
             BalanceResult(caller, outcome, balance)
       \/ \E seconds \in ClockSteps : EngineTick(seconds)
    /\ UNCHANGED <<reg_vars, graph_vars, rb_vars, pay_vars, fo_vars, trk_vars, regc_vars, rbl_vars>>

\* initialize() called again and again, by one caller after the other or by
\* both at once, next to get_balance calls that go to the runtime.
MaxRepeatedPool == 20

NextEnginePool ==
    /\ \/ \E caller \in Callers : PoolBelow(MaxRepeatedPool) /\ EngineInitialize(caller)
       \/ \E caller \in Callers, created \in BOOLEAN : CreatePrimary(caller, created)
       \/ \E caller \in Callers : StoreNode(caller)
       \/ \E caller \in Callers : LockPool(caller)
       \/ \E caller \in Callers, created \in BOOLEAN : CreateExtra(caller, created)
       \/ \E caller \in Callers : GetBalance(caller)
       \/ \E caller \in Callers : GetNode(caller)
       \/ \E caller \in Callers : BalanceResult(caller, "failed", <<0, 0>>)
    /\ UNCHANGED <<reg_vars, graph_vars, rb_vars, pay_vars, fo_vars, trk_vars, regc_vars, rbl_vars>>

(***************************************************************************)
(* Payment tracker: lightning/payment_processor.rs                         *)
(***************************************************************************)

PaymentStates == {"Pending", "InFlight", "Succeeded", "Failed"}

\* The payment hashes the callers create and one they never create.
PaymentHashes == {"h1", "h2"}

UnknownPaymentHash == "hx"

\* The callers of process_payment.
TrackerCallers == {"caller1", "caller2"}

TrackerTimes == {0, 60}

\* amount_msat of the payments created.
TrackedAmount == 100000

CancelReason == "Payment cancelled by user"

\* The PaymentInfo built by create_payment at time t.
NewPaymentInfo(payment_hash, amount_msat, t) ==
    [payment_hash |-> payment_hash, amount_msat |-> amount_msat,
     state |-> "Pending", created_at |-> t,
     completed_at |-> None, failure_reason |-> None]

\* The state test of update_payment_state, with Failed left out.
Completes_SucceededOnly(state) == state = "Succeeded"

\* state == PaymentState::Succeeded || state == PaymentState::Failed
Completes(state) == state \in {"Succeeded", "Failed"}

\* The payment after update_payment_state has written to it at time t.
WithPaymentState(payment, state, failure_reason, t) ==
    [payment EXCEPT !.state = state,
                    !.failure_reason = failure_reason,
                    !.completed_at = IF Completes(state) THEN Some(t) ELSE @]

\* update_payment_state on the map ps: the result and the map after it.
UpdatedPayments(ps, payment_hash, state, failure_reason, t) ==
    IF payment_hash \in DOMAIN ps
    THEN [ok |-> TRUE,
          payments |-> [ps EXCEPT ![payment_hash] =
                           WithPaymentState(@, state, failure_reason, t)]]
    ELSE [ok |-> FALSE, payments |-> ps]

TrackerResult(op, payment_hash, r) ==
    IF r.ok THEN Ok(op, payment_hash) ELSE Err(op, "Payment not found")

\* create_payment(payment_hash, amount_msat, destination)
TrackerCreatePayment(payment_hash, amount_msat) ==
    /\ trk_payments' = Insert(trk_payments, payment_hash,
                              NewPaymentInfo(payment_hash, amount_msat, trk_now))
    /\ trk_ret' = Ok("create_payment", payment_hash)
    /\ UNCHANGED <<trk_processing, trk_now>>

\* update_payment_state(payment_hash, state, failure_reason)
TrackerUpdatePaymentState(payment_hash, state, failure_reason) ==
    LET r == UpdatedPayments(trk_payments, payment_hash, state, failure_reason, trk_now)
    IN /\ trk_payments' = r.payments
       /\ trk_ret' = TrackerResult("update_payment_state", payment_hash, r)
       /\ UNCHANGED <<trk_processing, trk_now>>

\* process_payment up to its sleep: the update to InFlight, returning its
\* error with `?`.
TrackerProcessPaymentBegin(caller, payment_hash) ==
    /\ caller \notin DOMAIN trk_processing
    /\ LET r == UpdatedPayments(trk_payments, payment_hash, "InFlight", None, trk_now)
       IN /\ trk_payments' = r.payments
          /\ IF r.ok
             THEN /\ trk_processing' = Insert(trk_processing, caller, payment_hash)
                  /\ trk_ret' = [op |-> "process_payment", ok |-> TRUE, val |-> "asleep"]
             ELSE /\ trk_ret' = Err("process_payment", "Payment not found")
                  /\ UNCHANGED trk_processing
    /\ UNCHANGED trk_now

\* process_payment after its sleep: the update to Succeeded and get_payment.
TrackerProcessPaymentFinish(caller) ==
    /\ caller \in DOMAIN trk_processing
    /\ LET payment_hash == trk_processing[caller]
           r == UpdatedPayments(trk_payments, payment_hash, "Succeeded", None, trk_now)
       IN /\ trk_payments' = r.payments
          /\ trk_ret' = IF r.ok /\ payment_hash \in DOMAIN r.payments
                        THEN Ok("process_payment", payment_hash)
                        ELSE Err("process_payment", "Payment not found")
    /\ trk_processing' = [c \in DOMAIN trk_processing \ {caller} |-> trk_processing[c]]
    /\ UNCHANGED trk_now

\* cancel_payment(payment_hash)
TrackerCancelPayment(payment_hash) ==
    LET r == UpdatedPayments(trk_payments, payment_hash, "Failed",
                             Some(CancelReason), trk_now)
    IN /\ trk_payments' = r.payments
       /\ trk_ret' = TrackerResult("cancel_payment", payment_hash, r)
       /\ UNCHANGED <<trk_processing, trk_now>>

\* Time passes between two calls.
TrackerTick ==
    /\ \E later \in TrackerTimes : later > trk_now /\ trk_now' = later
    /\ UNCHANGED <<trk_payments, trk_processing, trk_ret>>

InitTracker ==
    /\ trk_payments = <<>>
    /\ trk_processing = <<>>
    /\ trk_now = 0
    /\ trk_ret = NoCall

NextTracker ==
    /\ \/ \E payment_hash \in PaymentHashes : TrackerCreatePayment(payment_hash, TrackedAmount)
       \/ \E payment_hash \in PaymentHashes \cup {UnknownPaymentHash},
             state \in PaymentStates, failure_reason \in {None, Some("no route")} :
             TrackerUpdatePaymentState(payment_hash, state, failure_reason)
       \/ \E caller \in TrackerCallers, payment_hash \in PaymentHashes \cup {UnknownPaymentHash} :
             TrackerProcessPaymentBegin(caller, payment_hash)
       \/ \E caller \in TrackerCallers : TrackerProcessPaymentFinish(caller)
       \/ \E payment_hash \in PaymentHashes \cup {UnknownPaymentHash} :
             TrackerCancelPayment(payment_hash)
       \/ TrackerTick
    /\ UNCHANGED <<reg_vars, graph_vars, rb_vars, pay_vars, fo_vars, eng_vars, regc_vars, rbl_vars>>

Init ==
    /\ InitRegistry
    /\ InitGraph
    /\ InitRebalancer
    /\ InitPayments
    /\ InitFailover
    /\ InitEngine
    /\ InitTracker
    /\ reg_calls = <<>>
    /\ InitRebalancerLocks

SpecRegistry == Init /\ [][NextRegistry]_vars

SpecRegistryStats == Init /\ [][NextRegistryStats]_vars

SpecGraph == Init /\ [][NextGraph]_vars

SpecGraphUpdates == Init /\ [][NextGraphUpdates]_vars

SpecRebalancer == Init /\ [][NextRebalancer]_vars

SpecPayments == Init /\ [][NextPayments]_vars

SpecRetryProcessor == Init /\ [][NextRetryProcessor]_vars

SpecFailover == Init /\ [][NextFailover]_vars

SpecEngine == Init /\ [][NextEngine]_vars

SpecTracker == Init /\ [][NextTracker]_vars

SpecRebalancerScan == Init /\ [][NextRebalancerScan]_vars

SpecEnginePool == Init /\ [][NextEnginePool]_vars

SpecRebalancerLocks == Init /\ [][NextRebalancerLocks]_vars /\ RebalancerLocksFairness

SpecRegistryConcurrent == Init /\ [][NextRegistryConcurrent]_vars

(***************************************************************************)
(* Channel registry: properties                                            *)
(***************************************************************************)

SumHolds(ch) == ch.local_balance_sats + ch.remote_balance_sats = ch.capacity_sats

AllChannelsSum == \A id \in DOMAIN channels : SumHolds(channels[id])

\* An update_channel_balance call whose balances do not sum to the capacity.
SumBreakingBalanceCall ==
    \E channel_id \in TargetIds, l \in Balances, r \in Balances :
        /\ channel_id \in DOMAIN channels
        /\ l + r # channels[channel_id].capacity_sats
        /\ UpdateChannelBalance(channel_id, l, r)

\* C4 (as claimed): in every reachable registry state every Open channel has
\* local_balance_sats + remote_balance_sats = capacity_sats.
C4_OpenChannelsSum ==
    \A id \in DOMAIN channels :
        channels[id].state = "Open" => SumHolds(channels[id])

\* C4 (amended): every registry call other than an update_channel_balance
\* whose arguments do not sum to the channel's capacity keeps
\* local + remote = capacity on every channel (so on every Open one).
C4_SumPreservedByConformingCalls ==
    /\ AllChannelsSum
    /\ [][(AllChannelsSum /\ ~SumBreakingBalanceCall) => AllChannelsSum']_vars

C4_Witness ==
    /\ reg_ret = Ok("update_channel_balance", 1)
    /\ 1 \in DOMAIN channels
    /\ channels[1].state = "Open"
    /\ channels[1].local_balance_sats = min_channel_size
    /\ channels[1].remote_balance_sats = 0
    /\ SumHolds(channels[1])

\* C5: no peer ever has more than max_channels_per_peer channels, and
\* create_channel for a peer that already has that many returns an error
\* and leaves the registry unchanged.
C5_PeerLimit ==
    /\ [](\A peer_id \in PeerIds :
             PeerChannelCount(channels, peer_id) <= max_channels_per_peer)
    /\ [][\A input \in CreateInputs :
            (/\ reg_ret'.op = "create_channel"
             /\ PeerChannelCount(channels, input[1]) >= max_channels_per_peer
             /\ CreateChannel(input[1], input[2]))
            => (reg_ret'.ok = FALSE /\ channels' = channels)]_vars

C5_Witness ==
    /\ reg_ret = Err("create_channel", "PeerLimit")
    /\ PeerChannelCount(channels, "peer1") = max_channels_per_peer

\* C6: create_channel with a capacity below min_channel_size or above
\* max_channel_size returns an error and leaves the registered channels
\* unchanged; a capacity equal to either bound passes the size validation
\* (the call succeeds unless the peer limit is reached).
C6_SizeValidation ==
    [][\A input \in CreateInputs :
         (reg_ret'.op = "create_channel" /\ CreateChannel(input[1], input[2])) =>
            /\ (input[2] < min_channel_size \/ input[2] > max_channel_size)
                  => (reg_ret'.ok = FALSE /\ channels' = channels)
            /\ (/\ input[2] \in {min_channel_size, max_channel_size}
                /\ PeerChannelCount(channels, input[1]) < max_channels_per_peer)
                  => (/\ reg_ret'.ok
                      /\ reg_ret'.val \in DOMAIN channels'
                      /\ channels'[reg_ret'.val].capacity_sats = input[2])]_vars

C6_Witness ==
    /\ reg_ret = Err("create_channel", "ExceedsMaximum")
    /\ \E id \in DOMAIN channels : channels[id].capacity_sats = min_channel_size
    /\ \E id \in DOMAIN channels : channels[id].capacity_sats = max_channel_size

\* C7: a successful create_channel(peer_id, capacity_sats) adds exactly one
\* channel under an id not present before, with the given peer and capacity,
\* state Pending, local 0 and remote = capacity, leaves every existing
\* channel unchanged, and get_channel on the returned id yields the record.
C7_CreateEffect ==
    [][\A input \in CreateInputs :
         (/\ reg_ret'.op = "create_channel"
          /\ reg_ret'.ok
          /\ CreateChannel(input[1], input[2])) =>
            LET id == reg_ret'.val IN
            /\ id \notin DOMAIN channels
            /\ DOMAIN channels' = DOMAIN channels \cup {id}
            /\ channels'[id].peer_id = input[1]
            /\ channels'[id].capacity_sats = input[2]
            /\ channels'[id].state = "Pending"
            /\ channels'[id].local_balance_sats = 0
            /\ channels'[id].remote_balance_sats = input[2]
            /\ \A other \in DOMAIN channels : channels'[other] = channels[other]
            /\ GetChannel(channels', id) = Some(channels'[id])]_vars

C7_Witness ==
    /\ reg_ret.op = "create_channel"
    /\ reg_ret.ok
    /\ reg_ret.val = 3
    /\ channels[3].peer_id = "peer2"
    /\ channels[3].state = "Pending"
    /\ channels[1].state = "Open"
    /\ channels[1].local_balance_sats = min_channel_size

\* C24 (as claimed): a channel whose state is Closed keeps that state in
\* every call of the registry.
C24_ClosedIsTerminal ==
    [][\A id \in DOMAIN channels :
         channels[id].state = "Closed" =>
            (id \in DOMAIN channels' /\ channels'[id].state = "Closed")]_vars

\* The call made in this step returns an error and changes no channel.
RejectedUnchanged == reg_ret'.ok = FALSE /\ channels' = channels

\* C25: update_channel_state, update_channel_balance and close_channel on
\* an id that is not registered return an error and leave the registry
\* unchanged; update_channel_state on a registered id succeeds, sets that
\* channel's state to the given one and leaves its peer, capacity and
\* balances and every other channel unchanged.
C25_UnknownIdAndStateFrame ==
    [][/\ reg_ret'.op = "update_channel_state" =>
          \A channel_id \in TargetIds, state \in ChannelStates :
             UpdateChannelState(channel_id, state) =>
                IF channel_id \notin DOMAIN channels
                THEN RejectedUnchanged
                ELSE /\ reg_ret'.ok
                     /\ DOMAIN channels' = DOMAIN channels
                     /\ channels'[channel_id] =
                           [peer_id |-> channels[channel_id].peer_id,
                            capacity_sats |-> channels[channel_id].capacity_sats,
                            local_balance_sats |-> channels[channel_id].local_balance_sats,
                            remote_balance_sats |-> channels[channel_id].remote_balance_sats,
                            state |-> state]
                     /\ \A other \in DOMAIN channels \ {channel_id} :
                           channels'[other] = channels[other]
       /\ reg_ret'.op = "update_channel_balance" =>
          \A channel_id \in TargetIds \ DOMAIN channels, l \in Balances, r \in Balances :
             UpdateChannelBalance(channel_id, l, r) => RejectedUnchanged
       /\ reg_ret'.op = "close_channel" =>
          \A channel_id \in TargetIds \ DOMAIN channels :
             CloseChannel(channel_id) => RejectedUnchanged]_vars

\* update_channel_state has overwritten the state of a funded channel next to
\* another channel, and an unknown id has been rejected before (the registry
\* holds no channel under it).
C25_Witness ==
    /\ reg_ret = Ok("update_channel_state", 1)
    /\ channels[1].state = "Error"
    /\ channels[1].local_balance_sats = min_channel_size
    /\ Cardinality(DOMAIN channels) >= 2
    /\ UnknownChannelId \notin DOMAIN channels

\* The registries a call on channel_id can leave behind.
Outcomes26(channel_id) ==
    {channels} \cup
    IF channel_id \in DOMAIN channels
    THEN {[channels EXCEPT ![channel_id].state = state] : state \in ChannelStates}
    ELSE {}

\* C26: from every registry state and for every id, close_channel(id) and
\* update_channel_state(id, Closing) return the same result (Ok or error)
\* and leave the same registry.
C26_CloseIsUpdateToClosing ==
    \A channel_id \in TargetIds, ok \in BOOLEAN :
        \A after \in Outcomes26(channel_id) :
            (ENABLED (/\ CloseChannel(channel_id)
                      /\ reg_ret'.ok = ok
                      /\ channels' = after))
            <=>
            (ENABLED (/\ UpdateChannelState(channel_id, "Closing")
                      /\ reg_ret'.ok = ok
                      /\ channels' = after))

\* close_channel has been called on a channel that was Closed.
C26_Witness ==
    /\ reg_ret = Ok("close_channel", 1)
    /\ channels[1].state = "Closing"
    /\ channels[1].local_balance_sats = min_channel_size

\* The sum of a field over the Open channels among the ids 1..n.
RECURSIVE SumOfOpen(_, _)
SumOfOpen(n, field) ==
    IF n = 0 THEN 0
    ELSE SumOfOpen(n - 1, field)
         + (IF n \in DOMAIN channels /\ channels[n].state = "Open"
            THEN channels[n][field] ELSE 0)

\* C27: get_total_capacity, get_total_local_balance and
\* get_total_remote_balance return the sum of their field over the channels
\* whose state is Open and over no other channel, and get_channel_stats on
\* the same registry reports the same three sums.
C27_OpenAggregates ==
    [][/\ reg_ret'.op = "get_total_capacity" =>
             reg_ret'.val = SumOfOpen(MaxChannels, "capacity_sats")
       /\ reg_ret'.op = "get_total_local_balance" =>
             reg_ret'.val = SumOfOpen(MaxChannels, "local_balance_sats")
       /\ reg_ret'.op = "get_total_remote_balance" =>
             reg_ret'.val = SumOfOpen(MaxChannels, "remote_balance_sats")
       /\ reg_ret'.op = "get_channel_stats" =>
             /\ reg_ret'.stats.total_capacity = SumOfOpen(MaxChannels, "capacity_sats")
             /\ reg_ret'.stats.total_local_balance =
                   SumOfOpen(MaxChannels, "local_balance_sats")
             /\ reg_ret'.stats.total_remote_balance =
                   SumOfOpen(MaxChannels, "remote_balance_sats")]_vars

\* get_total_capacity has summed two Open channels of different capacity
\* and left out a funded channel that is Closing.
C27_Witness ==
    /\ reg_ret = Ok("get_total_capacity", min_channel_size + max_channel_size)
    /\ DOMAIN channels = {1, 2, 3}
    /\ channels[1].state = "Open"
    /\ channels[2].state = "Open"
    /\ channels[3].state = "Closing"
    /\ channels[3].local_balance_sats = min_channel_size

\* The number of registered channels in a state.
InState(state) == Cardinality({id \in DOMAIN channels : channels[id].state = state})

\* C28: get_channel_stats leaves the registry unchanged, reports the number
\* of registered channels as total_channels and the number of channels in
\* each of the states Open, Pending, Closing and Closed as that state's
\* count, and a call that follows another with no call in between returns
\* the same result.
C28_StatsPureRead ==
    [][reg_ret'.op = "get_channel_stats" =>
         /\ channels' = channels
         /\ reg_ret'.stats.total_channels = Cardinality(DOMAIN channels)
         /\ reg_ret'.stats.open_channels = InState("Open")
         /\ reg_ret'.stats.pending_channels = InState("Pending")
         /\ reg_ret'.stats.closing_channels = InState("Closing")
         /\ reg_ret'.stats.closed_channels = InState("Closed")
         /\ reg_ret.op = "get_channel_stats" => reg_ret' = reg_ret]_vars

\* get_channel_stats on two freshly created channels: total 2, pending 2.
C28_Witness ==
    /\ reg_ret.op = "get_channel_stats"
    /\ reg_ret.stats.total_channels = 2
    /\ reg_ret.stats.pending_channels = 2
    /\ \A id \in DOMAIN channels :
          channels[id] = NewChannelInfo(channels[id].peer_id, channels[id].capacity_sats)

\* C33 (as claimed): in every interleaving of overlapping create_channel
\* calls no peer has more than max_channels_per_peer channels registered.
C33_PeerLimitUnderConcurrency ==
    \A peer_id \in PeerIds :
        PeerChannelCount(channels, peer_id) <= max_channels_per_peer

(***************************************************************************)
(* Topology graph: properties                                              *)
(***************************************************************************)

\* Some enabled channel joins a and b (in either direction).
EnabledLink(chs, a, b) ==
    \E id \in DOMAIN chs :
        /\ chs[id].is_enabled
        /\ \/ (chs[id].node1 = a /\ chs[id].node2 = b)
           \/ (chs[id].node1 = b /\ chs[id].node2 = a)

\* Nodes within `hops` enabled links of `from`.
RECURSIVE Within(_, _, _)
Within(chs, from, hops) ==
    IF hops = 0 THEN {from}
    ELSE LET near == Within(chs, from, hops - 1)
         IN near \cup {n \in NodeIds : \E m \in near : EnabledLink(chs, m, n)}

ReachableFrom(chs, from) == Within(chs, from, Cardinality(NodeIds))

\* Least number of enabled links from `from` to a reachable `to`.
HopDistance(chs, from, to) ==
    CHOOSE hops \in 0..Cardinality(NodeIds) :
        /\ to \in Within(chs, from, hops)
        /\ \A fewer \in 0..(hops - 1) : to \notin Within(chs, from, fewer)

\* C8: for from # to, find_shortest_path returns Some(path) exactly when `to`
\* is reachable from `from` over enabled edges taken as undirected, and None
\* otherwise; the path starts at from, ends at to, repeats no node, joins
\* consecutive nodes by an enabled edge and has the least number of hops.
C8_ShortestPath ==
    (graph_ret.op = "find_shortest_path" /\ graph_ret.from # graph_ret.to) =>
        LET from == graph_ret.from
            to == graph_ret.to
            result == graph_ret.result
        IN /\ (result.tag = "Some") <=> (to \in ReachableFrom(graph_channels, from))
           /\ result.tag = "Some" =>
                LET path == result.val IN
                /\ Len(path) >= 2
                /\ path[1] = from
                /\ path[Len(path)] = to
                /\ \A i, j \in 1..Len(path) : i # j => path[i] # path[j]
                /\ \A i \in 1..(Len(path) - 1) :
                      EnabledLink(graph_channels, path[i], path[i + 1])
                /\ Len(path) - 1 = HopDistance(graph_channels, from, to)

\* The chain A-B-C with a disabled direct channel A-C: the route is [A, B, C].
C8_Witness ==
    /\ graph_ret.op = "find_shortest_path"
    /\ graph_ret.from = "A"
    /\ graph_ret.to = "C"
    /\ graph_ret.result = Some(<<"A", "B", "C">>)
    /\ \E id \in DOMAIN graph_channels :
          /\ ~graph_channels[id].is_enabled
          /\ {graph_channels[id].node1, graph_channels[id].node2} = {"A", "C"}

\* node_id is the endpoint of some channel.
InSomeChannel(node_id) ==
    \E id \in DOMAIN graph_channels :
        node_id \in {graph_channels[id].node1, graph_channels[id].node2}

\* C29: find_shortest_path(A, A) returns [A] whether or not A is in the node
\* map or in any channel, and for from # to the search returns a path
\* exactly when to is reachable over enabled channels, whatever the node map
\* holds: it never fails because an endpoint was not added as a node.
C29_SelfPathAndDanglingEndpoints ==
    graph_ret.op = "find_shortest_path" =>
        /\ graph_ret.ok
        /\ graph_ret.from = graph_ret.to =>
              graph_ret.result = Some(<<graph_ret.from>>)
        /\ graph_ret.from # graph_ret.to =>
              ((graph_ret.result.tag = "Some")
                  <=> (graph_ret.to \in ReachableFrom(graph_channels, graph_ret.from)))

\* The path [D] was returned for an id that is neither a node nor in any
\* channel, while the graph holds channels whose endpoints B and C were never
\* added as nodes.
C29_Witness ==
    /\ graph_ret.op = "find_shortest_path"
    /\ graph_ret.from = IsolatedNodeId
    /\ graph_ret.result = Some(<<IsolatedNodeId>>)
    /\ IsolatedNodeId \notin graph_nodes
    /\ ~InSomeChannel(IsolatedNodeId)
    /\ InSomeChannel("C")
    /\ "A" \in graph_nodes

\* The value a field has after an update that supplies it or not.
FieldAfter(update, old) == IF update = None THEN old ELSE update.val

\* Every consecutive pair of the path is joined by an enabled channel.
OverEnabledChannels(path) ==
    \A i \in 1..(Len(path) - 1) : EnabledLink(graph_channels, path[i], path[i + 1])

\* The channel ids an update_channel call that returned graph_ret can have
\* been given: the id it reports on success, an id the graph lacks on error.
UpdateTargets ==
    IF graph_ret.ok
    THEN {graph_ret.val}
    ELSE ((1..MaxUpdatedChannels) \cup {UnknownChannelId}) \ DOMAIN graph_channels

\* C30: update_channel on a known channel sets exactly the supplied ones of
\* is_enabled, base_fee_msat and fee_rate_ppm, sets last_update to the
\* current time and leaves the channel's endpoints and capacity, every
\* other channel and the nodes unchanged; on an unknown id it returns an
\* error and changes nothing; and no path found afterwards crosses a channel
\* that is disabled.
C30_PartialUpdate ==
    [][/\ graph_ret'.op = "find_shortest_path" /\ graph_ret'.result.tag = "Some"
            => OverEnabledChannels(graph_ret.result.val)'
       /\ graph_ret'.op = "update_channel" =>
            \A channel_id \in UpdateTargets', updates \in ChannelUpdates :
               GraphUpdateChannel(channel_id, updates) =>
                  /\ graph_nodes' = graph_nodes
                  /\ IF channel_id \notin DOMAIN graph_channels
                     THEN graph_ret'.ok = FALSE /\ graph_channels' = graph_channels
                     ELSE LET old == graph_channels[channel_id]
                              new == graph_channels'[channel_id]
                          IN /\ graph_ret'.ok
                             /\ DOMAIN graph_channels' = DOMAIN graph_channels
                             /\ new.is_enabled = FieldAfter(updates.is_enabled, old.is_enabled)
                             /\ new.base_fee_msat =
                                   FieldAfter(updates.base_fee_msat, old.base_fee_msat)
                             /\ new.fee_rate_ppm =
                                   FieldAfter(updates.fee_rate_ppm, old.fee_rate_ppm)
                             /\ new.last_update = graph_now
                             /\ new.node1 = old.node1
                             /\ new.node2 = old.node2
                             /\ new.capacity_sat = old.capacity_sat
                             /\ \A other \in DOMAIN graph_channels \ {channel_id} :
                                   graph_channels'[other] = graph_channels[other]]_vars

\* Channel 1 (A-B) was disabled by a later update that kept its fees, channel
\* 2 (B-C) had its base fee changed, and the search from A to C finds nothing.
C30_Witness ==
    /\ graph_ret.op = "find_shortest_path"
    /\ graph_ret.from = "A"
    /\ graph_ret.to = "C"
    /\ graph_ret.result = None
    /\ DOMAIN graph_channels = {1, 2}
    /\ ~graph_channels[1].is_enabled
    /\ graph_channels[1].last_update = 60
    /\ graph_channels[1].base_fee_msat = AddedBaseFee
    /\ graph_channels[2].is_enabled
    /\ graph_channels[2].base_fee_msat = 0
    /\ graph_channels[2].fee_rate_ppm = AddedFeeRate

(***************************************************************************)
(* Rebalancer: properties                                                  *)
(***************************************************************************)

RbSumHolds(ch) == ch.local_balance + ch.remote_balance = ch.capacity

\* C3 (as claimed): when an operation between two distinct tracked channels
\* is completed and local_balance + remote_balance = capacity held for its
\* source and target just before the channel update, it holds for both just
\* after it.
C3_RebalanceKeepsSum ==
    [][\A operation_id \in DOMAIN rb_ops :
         LET operation == rb_ops[operation_id] IN
         (/\ operation.status = "InProgress"
          /\ rb_ops'[operation_id].status = "Completed"
          /\ operation.from_channel # operation.to_channel
          /\ operation.from_channel \in DOMAIN rb_channels
          /\ operation.to_channel \in DOMAIN rb_channels
          /\ RbSumHolds(rb_channels[operation.from_channel])
          /\ RbSumHolds(rb_channels[operation.to_channel]))
         => (/\ RbSumHolds(rb_channels'[operation.from_channel])
             /\ RbSumHolds(rb_channels'[operation.to_channel]))]_vars

\* The step in which execute_rebalance on operation_id passes its sleep and
\* returns.
Executed(operation_id) ==
    /\ operation_id \in DOMAIN rb_ops
    /\ rb_ops[operation_id].status = "InProgress"
    /\ rb_ops'[operation_id].status # "InProgress"

BothTracked(operation) ==
    /\ operation.from_channel \in DOMAIN rb_channels
    /\ operation.to_channel \in DOMAIN rb_channels

\* The move of operation.amount is applied to the source and to the target.
MoveApplied(operation) ==
    /\ BothTracked(operation)
    /\ IF operation.from_channel # operation.to_channel
       THEN /\ rb_channels'[operation.from_channel].local_balance =
                  SaturatingSub(rb_channels[operation.from_channel].local_balance,
                                operation.amount)
            /\ rb_channels'[operation.to_channel].local_balance =
                  rb_channels[operation.to_channel].local_balance + operation.amount
       ELSE rb_channels'[operation.from_channel].local_balance =
               SaturatingSub(rb_channels[operation.from_channel].local_balance,
                             operation.amount) + operation.amount

NoBalanceChanged ==
    /\ DOMAIN rb_channels' = DOMAIN rb_channels
    /\ \A id \in DOMAIN rb_channels :
          rb_channels'[id].local_balance = rb_channels[id].local_balance

\* C12 (as claimed): execute_rebalance either applies the move to both
\* referenced channels or changes no tracked channel's balance, and when the
\* move is not applied to both the operation ends as Failed.
C12_AllOrNothing ==
    [][\A operation_id \in DOMAIN rb_ops :
         Executed(operation_id) =>
            /\ MoveApplied(rb_ops[operation_id]) \/ NoBalanceChanged
            /\ ~MoveApplied(rb_ops[operation_id]) =>
                  rb_ops'[operation_id].status = "Failed"]_vars

\* What C13 states of an executed operation whose channels are both tracked.
RebalanceEffect(operation_id) ==
    LET operation == rb_ops[operation_id]
        from == operation.from_channel
        to == operation.to_channel
    IN /\ rb_ops'[operation_id].status = "Completed"
       /\ rb_ops'[operation_id].completed_at.tag = "Some"
       /\ DOMAIN rb_channels' = DOMAIN rb_channels
       /\ rb_channels'[from].local_balance =
             SaturatingSub(rb_channels[from].local_balance, operation.amount)
       /\ rb_channels'[to].local_balance =
             rb_channels[to].local_balance + operation.amount
       /\ rb_channels'[from].last_rebalance.tag = "Some"
       /\ rb_channels'[to].last_rebalance.tag = "Some"
       /\ rb_channels'[from].rebalance_count = rb_channels[from].rebalance_count + 1
       /\ rb_channels'[to].rebalance_count = rb_channels[to].rebalance_count
       /\ \A id \in DOMAIN rb_channels \ {from, to} :
             rb_channels'[id] = rb_channels[id]

\* C13 (as claimed): when both referenced channels are tracked, the executed
\* operation is Completed with completed_at set, the source's local_balance
\* is reduced by amount (saturating), the target's is increased by amount,
\* last_rebalance is set on both, only the source's rebalance_count grows by
\* one, and the other channels are unchanged.
C13_EffectWhenTracked ==
    [][\A operation_id \in DOMAIN rb_ops :
         (Executed(operation_id) /\ BothTracked(rb_ops[operation_id]))
            => RebalanceEffect(operation_id)]_vars

\* C13 (amended): the same, for an operation whose source and target are two
\* distinct tracked channels.
C13_EffectWhenTrackedAndDistinct ==
    [][\A operation_id \in DOMAIN rb_ops :
         (/\ Executed(operation_id)
          /\ BothTracked(rb_ops[operation_id])
          /\ rb_ops[operation_id].from_channel # rb_ops[operation_id].to_channel)
            => RebalanceEffect(operation_id)]_vars

\* A completed operation between two distinct tracked channels: the source
\* has counted the rebalance, the target has only its timestamp set.
C13_Witness ==
    \E operation_id \in DOMAIN rb_ops :
        LET operation == rb_ops[operation_id] IN
        /\ operation.status = "Completed"
        /\ operation.from_channel # operation.to_channel
        /\ operation.from_channel \in DOMAIN rb_channels
        /\ operation.to_channel \in DOMAIN rb_channels
        /\ rb_channels[operation.from_channel].rebalance_count = 1
        /\ rb_channels[operation.to_channel].rebalance_count = 0
        /\ rb_channels[operation.to_channel].last_rebalance.tag = "Some"
        /\ rb_channels[operation.to_channel].local_balance = 400000

\* C16 (as claimed): an operation that is Completed, Failed or Cancelled is
\* never moved to another status and never causes a balance update again.
C16_StatusForwardOnly ==
    [][\A operation_id \in DOMAIN rb_ops :
         rb_ops[operation_id].status \in {"Completed", "Failed", "Cancelled"} =>
            rb_ops'[operation_id].status = rb_ops[operation_id].status]_vars

\* What C14 states of one returned operation, from the channel table.
WellFormedOperation(operation) ==
    /\ operation.status = "Pending"
    /\ operation.completed_at = None
    /\ operation.from_channel # operation.to_channel
    /\ operation.from_channel \in DOMAIN rb_channels
    /\ operation.to_channel \in DOMAIN rb_channels
    /\ LET source == rb_channels[operation.from_channel]
           target == rb_channels[operation.to_channel]
           ideal == source.capacity \div 2
           off == IF source.local_balance > ideal
                  THEN source.local_balance - ideal
                  ELSE ideal - source.local_balance
       IN /\ source.is_active
          /\ target.is_active
          /\ 10 * off > ideal
          /\ operation.amount >= min_rebalance_amount
          /\ operation.amount <= max_rebalance_amount
          /\ (target.capacity \div 2) - target.local_balance >= operation.amount

\* C14: every operation returned by check_rebalancing_needed is Pending with
\* completed_at unset, names two distinct tracked active channels, has a
\* source whose balance ratio exceeds rebalance_threshold, an amount within
\* [min_rebalance_amount, max_rebalance_amount] and a target whose deficit
\* is at least the amount; the scan changes no channel.
C14_ScanOperations ==
    /\ [](rb_ret.op = "check_rebalancing_needed" =>
             \A i \in 1..Len(rb_ret.ops) : WellFormedOperation(rb_ret.ops[i]))
    /\ [][(rb_ret'.op = "check_rebalancing_needed" /\ rb_ret' # rb_ret) =>
             rb_channels' = rb_channels]_vars

\* A scan that returned one operation, moving 400,000 sats from a full
\* channel to an empty one.
C14_Witness ==
    /\ rb_ret.op = "check_rebalancing_needed"
    /\ Len(rb_ret.ops) = 1
    /\ rb_ret.ops[1].amount = 400000
    /\ rb_channels[rb_ret.ops[1].from_channel].local_balance = 1000000
    /\ rb_channels[rb_ret.ops[1].to_channel].local_balance = 0

\* C15 (as claimed): check_rebalancing_needed returns at least one operation
\* whenever an active channel with local_balance = capacity = 1,000,000 is
\* tracked, also when it is the only tracked channel.
C15_FullChannelYieldsOperation ==
    (/\ rb_ret.op = "check_rebalancing_needed"
     /\ \E id \in DOMAIN rb_channels :
           /\ rb_channels[id].is_active
           /\ rb_channels[id].capacity = 1000000
           /\ rb_channels[id].local_balance = rb_channels[id].capacity)
        => rb_ret.ops # <<>>

\* C34 (as claimed): with first-come-first-served guards on the channel map,
\* every check_rebalancing_needed, update_channel and execute_rebalance call
\* that was made eventually returns.
C34_EveryCallReturns ==
    \A c \in LockCallers : (rbl_calls[c].pc # "idle") ~> (rbl_calls[c].pc = "idle")

\* The step is the channel update of execute_rebalance for operation id.
Executes(id) ==
    /\ rb_ops[id].status = "InProgress"
    /\ rb_ops'[id].status = "Completed"

\* C38 (as claimed): executing an operation that check_rebalancing_needed
\* returned leaves neither its source nor its target further from
\* capacity / 2 than it was, also when the source is short of balance.
C38_NeverAwayFromBalance ==
    [][\A id \in DOMAIN rb_ops :
          Executes(id) =>
             \A ch \in {rb_ops[id].from_channel, rb_ops[id].to_channel} :
                Difference(rb_channels'[ch]) <= Difference(rb_channels[ch])]_vars

\* C39 (as claimed): executing an operation that check_rebalancing_needed
\* returned leaves the sum of the local balances of its source and its
\* target as it was.
C39_LiquidityConserved ==
    [][\A id \in DOMAIN rb_ops :
          Executes(id) =>
             LET from == rb_ops[id].from_channel
                 to == rb_ops[id].to_channel
             IN rb_channels'[from].local_balance + rb_channels'[to].local_balance
                   = rb_channels[from].local_balance + rb_channels[to].local_balance]_vars

\* C40 (as claimed): when all operations of one scan over channels with
\* local_balance <= capacity have been executed in the order returned, every
\* tracked channel has local_balance <= capacity.
C40_WithinCapacityAfterScan ==
    (rb_ops # <<>> /\ \A id \in DOMAIN rb_ops : rb_ops[id].status = "Completed") =>
        \A ch \in DOMAIN rb_channels :
            rb_channels[ch].local_balance <= rb_channels[ch].capacity

(***************************************************************************)
(* Payment processor: properties                                           *)
(***************************************************************************)

TerminalStatuses == {"Succeeded", "Failed", "Cancelled"}

\* No send attempt for the payment has succeeded: payment_hash is written by
\* update_payment_success only and never cleared.
EveryAttemptFailed(payment_id) == payments[payment_id].payment_hash = ""

\* C1 (as claimed): with a retry processor running, a payment whose every
\* send attempt has failed or timed out gets at most max_retries + 1 attempts,
\* and when its status is Failed exactly max_retries + 1 attempts were made
\* and its stored retry_count is max_retries.
C1_RetryBound ==
    \A payment_id \in DOMAIN payments :
        (DOMAIN drainers # {} /\ EveryAttemptFailed(payment_id)) =>
            /\ attempts[payment_id] <= max_retries + 1
            /\ payments[payment_id].status = "Failed" =>
                  /\ attempts[payment_id] = max_retries + 1
                  /\ payments[payment_id].retry_count = max_retries

\* C2 (as claimed): once a payment's stored status is Succeeded, Failed or
\* Cancelled, no step writes a different status to it.
C2_TerminalStatusFinal ==
    [][\A payment_id \in DOMAIN payments :
         payments[payment_id].status \in TerminalStatuses =>
            payments'[payment_id].status = payments[payment_id].status]_vars

\* get_payment_status(payment_id) on the payment table ps.
GetPaymentStatus(ps, payment_id) ==
    IF payment_id \in DOMAIN ps
    THEN [ok |-> TRUE, payment |-> ps[payment_id]]
    ELSE [ok |-> FALSE, err |-> "Payment not found"]

PendingRecord ==
    [status |-> "Pending", payment_hash |-> "", retry_count |-> 0,
     error_message |-> None]

\* The step in which process_payment stores payment_id and returns.
Submitted(payment_id) ==
    payment_id \notin DOMAIN payments /\ payment_id \in DOMAIN payments'

\* The first iteration of the task spawned for payment_id sets the status:
\* no step of background processing has written to the payment before.
FirstBackgroundWrite(payment_id) ==
    /\ Task(payment_id) \in DOMAIN runs
    /\ runs[Task(payment_id)].pc = "loop"
    /\ runs[Task(payment_id)].retry_count = 0
    /\ runs'[Task(payment_id)].pc = "send"

\* C17 (as claimed): process_payment stores and returns the Pending record
\* (retry_count 0, no error) before any send attempt is made, the payment is
\* found by get_payment_status from then on, and the first status change by
\* background processing is Pending -> Processing.
C17_SubmitThenProcess ==
    [][\A payment_id \in PaymentIds :
         /\ Submitted(payment_id) =>
               /\ payments'[payment_id] = PendingRecord
               /\ pay_ret'.op = "process_payment"
               /\ pay_ret'.val = payment_id
               /\ pay_ret'.payment = PendingRecord
               /\ attempts'[payment_id] = 0
         /\ GetPaymentStatus(payments, payment_id).ok =>
               GetPaymentStatus(payments', payment_id).ok
         /\ FirstBackgroundWrite(payment_id) =>
               /\ payments[payment_id].status = "Pending"
               /\ payments'[payment_id].status = "Processing"]_vars

\* The status changes C18 allows; Cancelled is entered from the non-terminal
\* statuses.
StatusEdges ==
    {<<"Pending", "Processing">>, <<"Processing", "Succeeded">>,
     <<"Processing", "Retrying">>, <<"Retrying", "Processing">>,
     <<"Processing", "Failed">>,
     <<"Pending", "Cancelled">>, <<"Processing", "Cancelled">>,
     <<"Retrying", "Cancelled">>}

\* An attempt for payment_id has failed or timed out with retry budget left:
\* the call goes to sleep before its next attempt.
FailedWithBudget(payment_id) ==
    \E runner \in DOMAIN runs :
        /\ runs[runner].pc = "send"
        /\ runs[runner].payment_id = payment_id
        /\ runs'[runner].pc = "sleep"

\* C18 (as claimed): every status change follows an edge of the payment
\* state machine, and an attempt that fails with retry budget left stores
\* status Retrying and increments the stored retry_count.
C18_StatusMachine ==
    [][\A payment_id \in DOMAIN payments :
         /\ payments'[payment_id].status # payments[payment_id].status =>
               <<payments[payment_id].status, payments'[payment_id].status>>
                  \in StatusEdges
         /\ FailedWithBudget(payment_id) =>
               /\ payments'[payment_id].status = "Retrying"
               /\ payments'[payment_id].retry_count =
                     payments[payment_id].retry_count + 1]_vars

\* A step of cancel_payment: the only call besides a failed initialize that
\* leaves the tasks, the queue, the clock and the payment table's domain as
\* they are.
CancelReturns ==
    /\ pay_ret'.op = "cancel_payment"
    /\ DOMAIN payments' = DOMAIN payments
    /\ UNCHANGED <<retry_queue, runs, drainers, now, attempts>>

\* C19 (as claimed): cancel_payment stores Cancelled only for a payment that
\* is Pending, Processing or Retrying; for an unknown id and for a payment
\* that is Succeeded, Failed or Cancelled it returns an error and leaves the
\* record unchanged.
C19_CancelOnlyNonTerminal ==
    [][CancelReturns =>
         /\ pay_ret'.ok =>
               /\ payments[pay_ret'.val].status \in {"Pending", "Processing", "Retrying"}
               /\ payments'[pay_ret'.val].status = "Cancelled"
         /\ \A payment_id \in DOMAIN payments :
               payments[payment_id].status \in TerminalStatuses =>
                  payments'[payment_id] = payments[payment_id]
         /\ ~pay_ret'.ok => payments' = payments]_vars

\* C20 (as claimed): whatever number of initialize() calls were made, at
\* most one retry processor drains the shared retry queue.
C20_OneRetryProcessor == Cardinality(DOMAIN drainers) <= 1

\* The process_payment_async call of retry processor d returns an error.
RetryFails(d) ==
    /\ runs[Drainer(d)].pc \in {"loop", "send"}
    /\ runs'[Drainer(d)].pc \notin {"loop", "send", "sleep"}
    /\ runs'[Drainer(d)].result = "err"

\* Retry processor d can take its next step: the next drained item while
\* items are left, the next tick of its interval otherwise.
GoesOn(d) ==
    /\ runs[Drainer(d)].pc = "idle"
    /\ IF drainers[d].to_retry # <<>>
       THEN ENABLED DrainerNext(d)
       ELSE now >= drainers[d].next_tick => ENABLED DrainerTick(d)

\* C21: an error returned for one drained retry item does not stop the
\* retry processor: the items drained in the same tick and not yet retried
\* are kept and its next step is to retry the first of them, or, when none
\* is left, to return from process_retry_queue and wait for its next tick.
C21_RetryErrorDoesNotStopDrainer ==
    [][\A d \in DOMAIN drainers :
         RetryFails(d) =>
            /\ d \in DOMAIN drainers'
            /\ drainers'[d] = drainers[d]
            /\ GoesOn(d)']_vars

\* A retry has returned an error while items of the same tick are left.
C21_Witness ==
    \E d \in DOMAIN drainers :
        /\ runs[Drainer(d)].pc = "idle"
        /\ runs[Drainer(d)].result = "err"
        /\ drainers[d].to_retry # <<>>

\* The step issues a send_payment call for the payment of runner: its
\* processing loop passes the loop head and goes on to the send.
IssuesSend(runner) ==
    /\ runner \in DOMAIN runs
    /\ runner \in DOMAIN runs'
    /\ runs[runner].pc = "loop"
    /\ runs'[runner].pc = "send"

\* C35 (as claimed): no send_payment call is issued for a payment whose
\* status is Succeeded or Cancelled, whether the call would come from a
\* RetryItem left in the queue or from a processing loop that was asleep.
C35_NoSendAfterFinalStatus ==
    [][\A runner \in Runners :
          IssuesSend(runner) =>
             LET payment_id == runs[runner].payment_id
             IN payment_id \in DOMAIN payments =>
                   payments[payment_id].status \notin {"Succeeded", "Cancelled"}]_vars

\* queue is split into ready and kept: going through queue in order, every
\* item due at t is the next item of ready and every other item the next
\* item of kept.
RECURSIVE SplitsAt(_, _, _, _)
SplitsAt(queue, ready, kept, t) ==
    IF queue = <<>> THEN ready = <<>> /\ kept = <<>>
    ELSE IF Head(queue).next_retry_at <= t
    THEN ready # <<>> /\ Head(ready) = Head(queue)
         /\ SplitsAt(Tail(queue), Tail(ready), kept, t)
    ELSE kept # <<>> /\ Head(kept) = Head(queue)
         /\ SplitsAt(Tail(queue), ready, Tail(kept), t)

\* The step is a run of process_retry_queue by retry processor d up to
\* drop(retry_queue).
Drains(d) == drainers'[d].next_tick # drainers[d].next_tick

\* The step is a failed send of runner with retries left.
FailsWithBudget(runner) ==
    /\ runner \in DOMAIN runs
    /\ runs[runner].pc = "send"
    /\ runs'[runner].pc = "sleep"

\* C36: a run of process_retry_queue at time now moves out of the queue
\* exactly the items with next_retry_at <= now and keeps the others in their
\* order; the items moved out are then taken one at a time, in order, and
\* the processing loop is entered once for each, while the queue is free to
\* be appended to; every failed send with retries left appends exactly one
\* item, with next_retry_at = now + retry_delay * retry_count; and the queue
\* changes in no other way.
C36_RetryQueueDrain ==
    [][/\ \A d \in DOMAIN drainers :
             /\ Drains(d) =>
                   /\ drainers[d].to_retry = <<>>
                   /\ SplitsAt(retry_queue, drainers'[d].to_retry, retry_queue', now)
             /\ ~Drains(d) =>
                   \/ drainers'[d].to_retry = drainers[d].to_retry
                   \/ /\ drainers[d].to_retry # <<>>
                      /\ drainers'[d].to_retry = Tail(drainers[d].to_retry)
                      /\ runs[Drainer(d)].pc = "idle"
                      /\ runs'[Drainer(d)].pc = "loop"
                      /\ runs'[Drainer(d)].payment_id = Head(drainers[d].to_retry).payment_id
                      /\ retry_queue' = retry_queue
       /\ \A runner \in Runners :
             FailsWithBudget(runner) =>
                /\ Len(retry_queue') = Len(retry_queue) + 1
                /\ SubSeq(retry_queue', 1, Len(retry_queue)) = retry_queue
                /\ LET item == retry_queue'[Len(retry_queue')]
                   IN /\ item.payment_id = runs[runner].payment_id
                      /\ item.retry_count = runs[runner].retry_count + 1
                      /\ item.next_retry_at = now + retry_delay * item.retry_count
       /\ retry_queue' # retry_queue =>
             \/ \E d \in DOMAIN drainers : Drains(d)
             \/ \E runner \in Runners : FailsWithBudget(runner)]_vars

\* A run of process_retry_queue has moved out an item that was due exactly
\* now and kept a later one, and the item moved out is not yet retried.
C36_Witness ==
    \E d \in DOMAIN drainers :
        /\ drainers[d].to_retry # <<>>
        /\ Head(drainers[d].to_retry).next_retry_at = now
        /\ retry_queue # <<>>
        /\ \A i \in 1..Len(retry_queue) : retry_queue[i].next_retry_at > now
        /\ runs[Drainer(d)].pc = "idle"

(***************************************************************************)
(* Async engine: properties                                                *)
(***************************************************************************)

\* The age in seconds of the cached balance at time t.
BalanceAge(t) == t - cache[BalanceKey].timestamp

\* caller enters get_balance in this step.
ReadsBalance(caller) ==
    /\ eng_calls[caller].pc = "idle"
    /\ \/ eng_calls'[caller].op = "get_balance"
       \/ eng_ret' # eng_ret /\ eng_ret'.op = "get_balance" /\ eng_ret'.caller = caller

\* The runtime call made for caller's get_balance returns in this step.
RuntimeReturns(caller) ==
    eng_calls[caller].pc = "runtime" /\ eng_calls'[caller].pc # "runtime"

\* C22: get_balance returns the cached tuple, without reaching the runtime
\* call, exactly when the cache holds a "balance" entry younger than 30 s (so
\* at age 29 and not at ages 30 and above); otherwise it goes on to the
\* runtime call, whose success stores the fresh tuple with timestamp = now
\* and ttl = 30 and whose failure or timeout stores nothing.
C22_BalanceCache ==
    [][\A caller \in Callers :
         /\ ReadsBalance(caller) =>
               IF BalanceKey \in DOMAIN cache /\ BalanceAge(eng_now) <= 29
               THEN /\ eng_ret' = EngineOk("get_balance", caller,
                                            cache[BalanceKey].data.items)
                    /\ eng_calls'[caller].pc = "idle"
                    /\ cache' = cache
               ELSE /\ eng_calls'[caller].pc = "get_node"
                    /\ eng_ret' = eng_ret
                    /\ cache' = cache
         /\ (eng_calls[caller].pc = "get_node" /\ eng_calls'[caller].pc # "get_node"
               /\ BalanceKey \in DOMAIN cache) =>
               eng_calls'[caller].pc = "runtime"
         /\ RuntimeReturns(caller) =>
               /\ eng_ret'.op = "get_balance" /\ eng_ret'.caller = caller
               /\ IF eng_ret'.ok
                  THEN /\ BalanceKey \in DOMAIN cache'
                       /\ cache'[BalanceKey].data.items = eng_ret'.val
                       /\ cache'[BalanceKey].timestamp = eng_now'
                       /\ cache'[BalanceKey].ttl = 30
                  ELSE cache' = cache]_vars

\* A read of a 29 s old entry has been answered from the cache by a caller
\* that is not in a call, while the clock can still reach the ages 30 and 31.
C22_Witness ==
    /\ BalanceKey \in DOMAIN cache
    /\ BalanceAge(eng_now) = 29
    /\ eng_ret.op = "get_balance"
    /\ eng_ret.ok
    /\ eng_ret.at = eng_now
    /\ eng_ret.val = cache[BalanceKey].data.items

\* The positions at which a call is suspended in a call to the runtime.
RuntimeCallPositions == {"create_primary", "create_extra", "runtime"}

\* C23 (as claimed): no call holds the write lock of a shared collection
\* while it is suspended in a call to the underlying runtime.
C23_NoWriteLockAcrossRuntimeCall ==
    \A caller \in Callers :
        eng_calls[caller].pc \in RuntimeCallPositions =>
            \A lock \in DOMAIN eng_locks : eng_locks[lock] # caller

\* C37 (as claimed): in every reachable state, also after repeated
\* initialize() calls and after failures creating additional connections,
\* the connection pool holds at most max_connections handles.
C37_PoolBounded == connection_pool <= max_connections

(***************************************************************************)
(* Peer failover: properties                                               *)
(***************************************************************************)

\* new = old * 0.9 as exact rates.
IsNineTenthsOf(new, old) ==
    new.num * 10 * Pow10(old.scale) = 9 * old.num * Pow10(new.scale)

\* The peers a call tries after the primary: the known peers that are online
\* and are not the primary.
OtherOnlinePeers ==
    {id \in DOMAIN peers : peers[id].is_online /\ Some(id) # primary_peer}

\* C9: send_payment_with_failover tries the primary peer first, then, only
\* when that attempt failed or there is no primary, the other online peers,
\* each at most once; it stops at the first success, and on success
\* primary_peer is the peer that delivered (unchanged when it was the primary,
\* promoted otherwise).
C9_FailoverOrder ==
    [][fo_ret'.op = "send_payment_with_failover" =>
        LET log == fo_ret'.log
            last == log[Len(log)]
        IN /\ \A i \in 1..Len(log) :
                 (log[i].phase = "primary") <=> (i = 1 /\ primary_peer.tag = "Some")
           /\ primary_peer.tag = "Some" =>
                 Len(log) >= 1 /\ log[1].peer = primary_peer.val
           /\ \A i \in 1..Len(log) :
                 log[i].phase = "other" => log[i].peer \in OtherOnlinePeers
           /\ \A i, j \in 1..Len(log) : i # j => log[i].peer # log[j].peer
           /\ \A i \in 1..(Len(log) - 1) : ~log[i].ok
           /\ fo_ret'.ok <=> (Len(log) >= 1 /\ last.ok)
           /\ ~fo_ret'.ok =>
                 \A id \in OtherOnlinePeers : \E i \in 1..Len(log) : log[i].peer = id
           /\ fo_ret'.ok =>
                 /\ primary_peer' = Some(last.peer)
                 /\ last.phase = "primary" => primary_peer' = primary_peer]_vars

\* A call that tried the primary and then two other peers.
C9_Witness ==
    /\ fo_ret.op = "send_payment_with_failover"
    /\ Len(fo_ret.log) = 3
    /\ fo_ret.log[1].phase = "primary"
    /\ fo_ret.log[2].phase = "other"
    /\ fo_ret.log[3].phase = "other"

\* C10: when no attempt succeeds, send_payment_with_failover returns the
\* error of the last attempt made, or "All peers failed" when it made none;
\* primary_peer is unchanged, and every known peer whose attempt failed is
\* offline with connection_attempts one higher and success_rate times 0.9.
C10_AllPeersFailed ==
    [][(fo_ret'.op = "send_payment_with_failover" /\ ~fo_ret'.ok) =>
        LET log == fo_ret'.log
        IN /\ fo_ret'.err = IF log = <<>> THEN "All peers failed"
                            ELSE log[Len(log)].error.val
           /\ primary_peer' = primary_peer
           /\ DOMAIN peers' = DOMAIN peers
           /\ \A i \in 1..Len(log) :
                 log[i].peer \in DOMAIN peers =>
                    LET old == peers[log[i].peer]
                        new == peers'[log[i].peer]
                    IN /\ ~log[i].ok
                       /\ ~new.is_online
                       /\ new.connection_attempts = old.connection_attempts + 1
                       /\ IsNineTenthsOf(new.success_rate, old.success_rate)]_vars

\* A failed call that tried a known primary and another peer and left the
\* primary with a second failed connection attempt.
C10_Witness ==
    /\ fo_ret.op = "send_payment_with_failover"
    /\ ~fo_ret.ok
    /\ Len(fo_ret.log) >= 2
    /\ fo_ret.log[1].phase = "primary"
    /\ fo_ret.log[1].peer \in DOMAIN peers
    /\ peers[fo_ret.log[1].peer].connection_attempts = 2
    /\ ~peers[fo_ret.log[1].peer].is_online

\* C11: get_best_peer returns None exactly when no peer is online; otherwise
\* it returns an online peer whose success_rate is not below that of any
\* other online peer, and never an offline peer.
C11_BestPeer ==
    fo_ret.op = "get_best_peer" =>
        /\ (fo_ret.best.tag = "None") <=> (\A id \in DOMAIN peers : ~peers[id].is_online)
        /\ fo_ret.best.tag = "Some" =>
              /\ fo_ret.best.val \in DOMAIN peers
              /\ peers[fo_ret.best.val].is_online
              /\ \A id \in DOMAIN peers :
                    peers[id].is_online =>
                       ~RateLess(peers[fo_ret.best.val].success_rate,
                                 peers[id].success_rate)

\* The best of two online peers is returned although an offline peer has a
\* higher rate.
C11_Witness ==
    /\ fo_ret.op = "get_best_peer"
    /\ fo_ret.best.tag = "Some"
    /\ \E id \in DOMAIN peers :
          /\ ~peers[id].is_online
          /\ RateLess(peers[fo_ret.best.val].success_rate, peers[id].success_rate)
    /\ \E id \in DOMAIN peers \ {fo_ret.best.val} : peers[id].is_online

\* rate lies in [0, 1].
InUnitInterval(rate) == rate.num >= 0 /\ rate.num <= Pow10(rate.scale)

\* new = (9 * old + add) / 10 as exact rates, add being 0 or 1.
IsNineTenthsPlus(new, old, add) ==
    new.num * Pow10(old.scale + 1) =
        (9 * old.num + add * Pow10(old.scale)) * Pow10(new.scale)

\* C31: update_peer_status(id, true) sets is_online, resets
\* connection_attempts to 0 and sets success_rate to 0.9 * rate + 0.1;
\* update_peer_status(id, false) clears is_online, adds one to
\* connection_attempts and sets success_rate to 0.9 * rate; every other peer
\* is left as it was and an unknown id changes nothing; and every stored
\* success_rate lies in [0, 1] after every call.
C31_PeerStatusUpdate ==
    [][/\ \A id \in DOMAIN peers' : InUnitInterval(peers'[id].success_rate)
       /\ fo_ret'.op = "update_peer_status" =>
            \A node_id \in PeerNodeIds \cup {UnknownNodeId}, is_online \in BOOLEAN :
               UpdatePeerStatus(node_id, is_online) =>
                  /\ fo_ret'.ok
                  /\ primary_peer' = primary_peer
                  /\ DOMAIN peers' = DOMAIN peers
                  /\ \A other \in DOMAIN peers \ {node_id} : peers'[other] = peers[other]
                  /\ node_id \in DOMAIN peers =>
                        LET old == peers[node_id]
                            new == peers'[node_id]
                        IN /\ new.is_online = is_online
                           /\ new.connection_attempts =
                                 IF is_online THEN 0 ELSE old.connection_attempts + 1
                           /\ IsNineTenthsPlus(new.success_rate, old.success_rate,
                                               IF is_online THEN 1 ELSE 0)]_vars

\* A peer was reported offline and then online by update_peer_status: its
\* rate is 0.9 * 0.9 + 0.1 = 0.91 and its attempts are back at 0.
C31_Witness ==
    /\ fo_ret.op = "update_peer_status"
    /\ \E id \in DOMAIN peers :
          /\ peers[id].is_online
          /\ peers[id].connection_attempts = 0
          /\ peers[id].success_rate = [num |-> 91, scale |-> 2]

(***************************************************************************)
(* Payment tracker: properties                                             *)
(***************************************************************************)

\* Every stored payment that is Succeeded or Failed has completed_at set.
CompletedHaveTime(ps) ==
    \A h \in DOMAIN ps :
        ps[h].state \in {"Succeeded", "Failed"} => ps[h].completed_at.tag = "Some"

\* The hashes a call that returned trk_ret can have been given: the hash it
\* reports on success, a hash the map lacks on error.
UpdatedHashes ==
    IF trk_ret.ok
    THEN {trk_ret.val}
    ELSE (PaymentHashes \cup {UnknownPaymentHash}) \ DOMAIN trk_payments

\* C32: after every create_payment, update_payment_state, process_payment
\* and cancel_payment call every stored payment that is Succeeded or Failed
\* has completed_at set; create_payment stores a Pending record with
\* completed_at unset; update_payment_state on an unknown hash returns an
\* error and the map is as before.
C32_CompletedAtSet ==
    [][/\ CompletedHaveTime(trk_payments')
       /\ trk_ret'.op = "create_payment" =>
             /\ trk_ret'.ok
             /\ trk_ret'.val \in DOMAIN trk_payments'
             /\ trk_payments'[trk_ret'.val].state = "Pending"
             /\ trk_payments'[trk_ret'.val].completed_at = None
       /\ trk_ret'.op = "update_payment_state" =>
             \A payment_hash \in UpdatedHashes', state \in PaymentStates,
                failure_reason \in {None, Some("no route")} :
                TrackerUpdatePaymentState(payment_hash, state, failure_reason) =>
                   IF payment_hash \in DOMAIN trk_payments
                   THEN /\ trk_ret'.ok
                        /\ DOMAIN trk_payments' = DOMAIN trk_payments
                        /\ trk_payments'[payment_hash].state = state
                   ELSE /\ ~trk_ret'.ok
                        /\ trk_payments' = trk_payments]_vars

\* A payment cancelled at time 60 is Failed with completed_at set, next to a
\* payment that process_payment has left InFlight.
C32_Witness ==
    /\ trk_ret.op = "cancel_payment"
    /\ trk_ret.ok
    /\ trk_payments[trk_ret.val].state = "Failed"
    /\ trk_payments[trk_ret.val].completed_at = Some(60)
    /\ trk_payments[trk_ret.val].failure_reason = Some(CancelReason)
    /\ \E h \in DOMAIN trk_payments : trk_payments[h].state = "InFlight"

====
